---- MODULE Spec2Model ----
(***************************************************************************)
(* Model of the rs-mdict reader: MdictBase (construction and queries) with *)
(* the Mdx and Mdd front ends.                                             *)
(*                                                                         *)
(* Text is a sequence of Unicode scalar values (ASCII here), bytes are     *)
(* numbers 0..255.  A Result is [ok |-> TRUE, val |-> v] or                *)
(* [ok |-> FALSE, err |-> kind]; an Option is None or Some(v).             *)
(***************************************************************************)
EXTENDS Integers, Sequences, FiniteSets, TLC

\* ------------------------------------------------------------------ bounds
\* most keywords in a dictionary of the key family
MaxKeys == 3
\* longest record payload in the layout family
MaxRecLen == 2

\* ------------------------------------------------------------ text helpers
None == [some |-> FALSE]

Some(v) == [some |-> TRUE, val |-> v]

Ok(v) == [ok |-> TRUE, val |-> v]

Err(e) == [ok |-> FALSE, err |-> e]

\* str::to_lowercase on ASCII text
to_lowercase(s) == [i \in 1..Len(s) |-> IF s[i] \in 65..90 THEN s[i] + 32 ELSE s[i]]

\* char::is_whitespace on ASCII
WhiteSpace == {9, 10, 11, 12, 13, 32}

RECURSIVE trim_start(_)
trim_start(s) == IF s # <<>> /\ Head(s) \in WhiteSpace THEN trim_start(Tail(s)) ELSE s

RECURSIVE trim_end(_)
trim_end(s) ==
    IF s # <<>> /\ s[Len(s)] \in WhiteSpace THEN trim_end(SubSeq(s, 1, Len(s) - 1)) ELSE s

\* str::trim
trim(s) == trim_end(trim_start(s))

\* str::replace(chars, "")
remove_chars(s, chars) == SelectSeq(s, LAMBDA c : c \notin chars)

\* str::replace(from, to) for single characters
replace_char(s, from, to) == [i \in 1..Len(s) |-> IF s[i] = from THEN to ELSE s[i]]

\* str::rfind(c): Some(0-based position of the last c), or None
rfind(s, c) ==
    LET hits == {i \in 1..Len(s) : s[i] = c}
    IN  IF hits = {} THEN None ELSE Some((CHOOSE i \in hits : \A j \in hits : j <= i) - 1)

\* str::starts_with
starts_with(s, p) == Len(p) <= Len(s) /\ SubSeq(s, 1, Len(p)) = p

\* Ord for String: lexicographic over scalar values
RECURSIVE cmp(_, _)
cmp(a, b) ==
    IF a = <<>> THEN (IF b = <<>> THEN "Equal" ELSE "Less")
    ELSE IF b = <<>> THEN "Greater"
    ELSE IF Head(a) < Head(b) THEN "Less"
    ELSE IF Head(a) > Head(b) THEN "Greater"
    ELSE cmp(Tail(a), Tail(b))

\* characters removed by strip_key for MDD: ( ) . , space ' / @
MddStripChars == {40, 41, 46, 44, 32, 39, 47, 64}

\* characters removed by strip_key for MDX: ( ) . , - & space ' / \ @ _ $ !
MdxStripChars == {40, 41, 46, 44, 45, 38, 32, 39, 47, 92, 64, 95, 36, 33}

\* utils::strip_key
strip_key(key, is_mdd) ==
    LET without_extension(s, pos) == IF pos.some THEN SubSeq(s, 1, pos.val) ELSE s
        stripped(lower) ==
            IF is_mdd
            THEN replace_char(remove_chars(without_extension(lower, rfind(lower, 46)),
                                           MddStripChars), 95, 33)
            ELSE remove_chars(lower, MdxStripChars)
    IN  trim(stripped(to_lowercase(key)))

\* ------------------------------------------------------- header attributes
\* "Yes"
YES == <<89, 101, 115>>

\* "No"
NO == <<78, 111>>

\* digits of an unsigned decimal text, most significant first
RECURSIVE digits_value(_, _)
digits_value(s, acc) ==
    IF s = <<>> THEN acc ELSE digits_value(Tail(s), acc * 10 + (Head(s) - 48))

all_digits(s) == \A i \in 1..Len(s) : s[i] \in 48..57

\* Result::unwrap_or
unwrap_or(r, default) == IF r.ok THEN r.val ELSE default

\* str::parse::<u8>: optional '+', then digits, value at most 255
parse_u8(s) ==
    LET body == IF s # <<>> /\ Head(s) = 43 THEN Tail(s) ELSE s
    IN  IF body = <<>> \/ ~all_digits(body) THEN Err("ParseIntError")
        ELSE IF digits_value(body, 0) > 255 THEN Err("ParseIntError")
        ELSE Ok(digits_value(body, 0))

\* str::parse::<f64> for plain decimals (digits, optional fraction); the
\* value is kept in tenths, rounded down, which preserves "version >= 2.0"
parse_f64(s) ==
    LET split(dot) ==
            [ip |-> IF dot.some THEN SubSeq(s, 1, dot.val) ELSE s,
             fp |-> IF dot.some THEN SubSeq(s, dot.val + 2, Len(s)) ELSE <<>>]
        value(p) ==
            IF (p.ip = <<>> /\ p.fp = <<>>) \/ ~all_digits(p.ip) \/ ~all_digits(p.fp)
            THEN Err("ParseFloatError")
            ELSE Ok(digits_value(p.ip, 0) * 10 + (IF p.fp = <<>> THEN 0 ELSE Head(p.fp) - 48))
    IN  value(split(rfind(s, 46)))

\* EncryptType::from that knows no key-info encryption
EncryptType_from_without_key_info(value) ==
    CASE value = 1 -> "RecordBlock"
      [] OTHER -> "None"

\* impl From<u8> for EncryptType
EncryptType_from(value) ==
    CASE value = 0 -> "None"
      [] value = 1 -> "RecordBlock"
      [] value = 2 -> "KeyInfoBlock"
      [] OTHER -> "None"

\* HashMap::get(..).unwrap_or(default)
get_or(map, name, default) == IF name \in DOMAIN map THEN map[name] ELSE default

\* read_header: defaults inserted for KeyCaseSensitive and StripKey
header_with_defaults(attrs) ==
    [n \in DOMAIN attrs \cup {"KeyCaseSensitive", "StripKey"} |->
        IF n \in DOMAIN attrs THEN attrs[n]
        ELSE IF n = "KeyCaseSensitive" THEN NO ELSE YES]

\* encrypt_of that takes every value but "Yes" for no encryption
encrypt_of_yes_only(hdr) ==
    IF get_or(hdr, "Encrypted", <<>>) = YES THEN "RecordBlock" ELSE "None"

\* read_header: encryption kind from the Encrypted attribute
encrypt_of(hdr) ==
    LET kind(encrypted) ==
            IF encrypted = <<>> \/ encrypted = NO THEN "None"
            ELSE IF encrypted = YES THEN "RecordBlock"
            ELSE EncryptType_from(unwrap_or(parse_u8(encrypted), 0))
    IN  kind(get_or(hdr, "Encrypted", <<>>))

\* read_header: version in tenths, default 1.2
version_of(hdr) == unwrap_or(parse_f64(get_or(hdr, "GeneratedByEngineVersion", <<49, 46, 50>>)), 12)

\* encoding_of that matches the Encoding attribute as written
encoding_of_as_written(hdr, ext) ==
    LET named(e) ==
            CASE e = <<>> -> "Utf8"
              [] e \in {<<103, 98, 107>>, <<103, 98, 50, 51, 49, 50>>} -> "Gb18030"
              [] e = <<98, 105, 103, 53>> -> "Big5"
              [] e \in {<<117, 116, 102, 49, 54>>, <<117, 116, 102, 45, 49, 54>>} -> "Utf16Le"
              [] OTHER -> "Utf8"
    IN  IF ext = "Mdd" THEN "Utf16Le" ELSE named(get_or(hdr, "Encoding", <<>>))

\* read_header: encoding from the lowercased Encoding attribute
encoding_of(hdr, ext) ==
    LET named(e) ==
            CASE e = <<>> -> "Utf8"
              [] e \in {<<103, 98, 107>>, <<103, 98, 50, 51, 49, 50>>} -> "Gb18030"
              [] e = <<98, 105, 103, 53>> -> "Big5"
              [] e \in {<<117, 116, 102, 49, 54>>, <<117, 116, 102, 45, 49, 54>>} -> "Utf16Le"
              [] OTHER -> "Utf8"
    IN  IF ext = "Mdd" THEN "Utf16Le" ELSE named(to_lowercase(get_or(hdr, "Encoding", <<>>)))

\* read_header: the metadata derived from the header attributes
meta_of(hdr, ext) ==
    LET with_version(version) ==
            [ext |-> ext,
             encrypt |-> encrypt_of(hdr),
             version |-> version,
             num_width |-> IF version >= 20 THEN 8 ELSE 4,
             num_fmt |-> IF version >= 20 THEN "Uint64" ELSE "Uint32",
             encoding |-> encoding_of(hdr, ext),
             passcode |-> None]
    IN  with_version(version_of(hdr))

\* ---------------------------------------------------------------- the file
\* A dictionary is described by the record
\*   [ext, attrs, entries, kb_counts, rb_counts, rb_status]
\* entries: the keywords in key-block (file) order, each [key_text, rec_len];
\* kb_counts / rb_counts: entries per key block / records per record block;
\* rb_status: per record block, "none" | "lzo" | "zlib" (intact, by
\* compression type), "lzo_bad" | "zlib_bad" (stream the codec rejects),
\* "badtype" (unknown type code) or "cut" (the file ends inside the block).
\* The file on disk adds len, the file length, and sections, the content
\* stored at each <<offset, length>> the format defines.
RECURSIVE sum_seq(_)
sum_seq(q) == IF q = << >> THEN 0 ELSE Head(q) + sum_seq(Tail(q))

\* running sum before position i (1-based) of q
accum(q, i) == sum_seq(SubSeq(q, 1, i - 1))

\* payload byte stored at address a of the decompressed record space
data_byte(a) == 33 + (a % 90)

\* encoded size of a key text, terminator excluded
key_bytes(m, text) == IF m.encoding = "Utf16Le" THEN 2 * Len(text) ELSE Len(text)

\* terminator width written after each key
nul_width(m) == IF m.encoding = "Utf16Le" \/ m.ext = "Mdd" THEN 2 ELSE 1

\* the first entry (1-based) of each block, from the entries per block
first_of(counts) == [b \in 1..Len(counts) |-> accum(counts, b) + 1]

\* sizes of the key blocks, the key-info table and the record blocks of d:
\* each block is its payload after 8 bytes of type code and checksum, and
\* the key-info table of a 2.0 file is stored the same way
block_sizes(d, m, lens, kb_first, rb_first) ==
    LET nw == m.num_width
        term == IF m.version >= 20 THEN nul_width(m) ELSE 0
        key_size(i) == key_bytes(m, d.entries[i].key_text)
        packed(kb_unpack, key_info_unpack, rb_unpack) ==
            [kb_unpack |-> kb_unpack,
             kb_pack |-> [b \in DOMAIN kb_unpack |-> 8 + kb_unpack[b]],
             key_info_unpack |-> key_info_unpack,
             key_info_packed |->
                 IF m.version >= 20 THEN 8 + key_info_unpack ELSE key_info_unpack,
             rb_unpack |-> rb_unpack,
             rb_pack |-> [b \in DOMAIN rb_unpack |-> 8 + rb_unpack[b]]]
    IN  packed([b \in DOMAIN kb_first |->
                   sum_seq([j \in 1..d.kb_counts[b] |->
                       nw + key_size(kb_first[b] + j - 1) + nul_width(m)])],
               sum_seq([b \in DOMAIN kb_first |->
                   nw + (nw \div 4) + key_size(kb_first[b]) + term
                      + (nw \div 4) + key_size(kb_first[b] + d.kb_counts[b] - 1) + term
                      + 2 * nw]),
               [b \in DOMAIN rb_first |->
                   sum_seq(SubSeq(lens, rb_first[b], rb_first[b] + d.rb_counts[b] - 1))])

\* where each part of the file starts, and how long the fixed parts are
section_offsets(d, m, z) ==
    LET v2 == m.version >= 20
        header_size == 2 * (14 + 20 * Cardinality(DOMAIN d.attrs)
            + (IF "Encrypted" \in DOMAIN d.attrs THEN Len(d.attrs["Encrypted"]) ELSE 0)
            + (IF "Encoding" \in DOMAIN d.attrs THEN Len(d.attrs["Encoding"]) ELSE 0))
        from_header(key_header, key_header_len, record_header_len, record_info_len) ==
            LET from_key_blocks(key_info, key_blocks) ==
                    LET from_record_header(record_header) ==
                            [header_size |-> key_header - 8,
                             key_header |-> key_header,
                             key_header_len |-> key_header_len,
                             key_info |-> key_info,
                             key_blocks |-> key_blocks,
                             record_header |-> record_header,
                             record_header_len |-> record_header_len,
                             record_info |-> record_header + record_header_len,
                             record_info_len |-> record_info_len,
                             record_blocks |->
                                 record_header + record_header_len + record_info_len]
                    IN  from_record_header(key_blocks + sum_seq(z.kb_pack))
                from_key_info(key_info) == from_key_blocks(key_info, key_info + z.key_info_packed)
            IN  from_key_info(key_header + key_header_len + (IF v2 THEN 4 ELSE 0))
    IN  from_header(header_size + 8,
                    IF v2 THEN 40 ELSE 16,
                    IF v2 THEN 32 ELSE 16,
                    Len(d.rb_counts) * 2 * m.num_width)

\* how many entries more than it holds the file declares in part: the first
\* key-block descriptor ("key_info") or the record header ("record_header")
declared_extra(d, part) == IF "miscount" \in DOMAIN d /\ d.miscount = part THEN 1 ELSE 0

\* header, key header, key-info table, record header and record-info table
fixed_sections(d, z, o, kb_first) ==
    {<<0, 4, [sec |-> "header_size", value |-> o.header_size]>>,
     <<4, o.header_size, [sec |-> "header", attrs |-> d.attrs]>>,
     <<o.key_header, o.key_header_len,
       [sec |-> "key_header",
        keyword_blocks_num |-> Len(d.kb_counts),
        keyword_num |-> Len(d.entries),
        key_info_unpack_size |-> z.key_info_unpack,
        key_info_packed_size |-> z.key_info_packed,
        keyword_block_packed_size |-> sum_seq(z.kb_pack)]>>,
     <<o.key_info, z.key_info_packed,
       [sec |-> "key_info",
        blocks |-> [b \in DOMAIN kb_first |->
            [entries |-> d.kb_counts[b]
                           + (IF b = 1 THEN declared_extra(d, "key_info") ELSE 0),
             first_word |-> d.entries[kb_first[b]].key_text,
             last_word |-> d.entries[kb_first[b] + d.kb_counts[b] - 1].key_text,
             pack_size |-> z.kb_pack[b],
             unpack_size |-> z.kb_unpack[b]]]]>>,
     <<o.record_header, o.record_header_len,
       [sec |-> "record_header",
        record_blocks_num |-> Len(d.rb_counts),
        entries_num |-> Len(d.entries) + declared_extra(d, "record_header"),
        record_info_comp_size |-> o.record_info_len,
        record_block_comp_size |-> sum_seq(z.rb_pack)]>>,
     <<o.record_info, o.record_info_len,
       [sec |-> "record_info",
        blocks |-> [b \in DOMAIN z.rb_pack |->
            [pack_size |-> z.rb_pack[b], unpack_size |-> z.rb_unpack[b]]]]>>}

\* the key blocks: per entry, its record start offset and its key text
key_block_sections(d, z, o, kb_first, starts) ==
    {<<o.key_blocks + accum(z.kb_pack, b), z.kb_pack[b],
       [sec |-> "key_block", type |-> 0,
        keys |-> [j \in 1..d.kb_counts[b] |->
            [offset |-> starts[kb_first[b] + j - 1],
             key_text |-> d.entries[kb_first[b] + j - 1].key_text]]]>> :
        b \in DOMAIN kb_first}

\* the record blocks: type code, whether the codec accepts the payload, and
\* the bytes it decompresses to
record_block_sections(d, z, o) ==
    {<<o.record_blocks + accum(z.rb_pack, b), z.rb_pack[b],
       [sec |-> "record_block",
        type |-> CASE d.rb_status[b] = "none" -> 0
                   [] d.rb_status[b] \in {"lzo", "lzo_bad"} -> 1
                   [] d.rb_status[b] \in {"zlib", "zlib_bad"} -> 2
                   [] OTHER -> 7,
        intact |-> d.rb_status[b] \in {"none", "lzo", "zlib"},
        plain |-> [i \in 1..z.rb_unpack[b] |->
            data_byte(accum(z.rb_unpack, b) + i - 1)]]>> :
        b \in DOMAIN z.rb_pack}

\* the content stored at each <<offset, length>>; empty parts are not stored
section_map(all) ==
    [k \in {<<t[1], t[2]>> : t \in all} |->
        (CHOOSE t \in all : t[1] = k[1] /\ t[2] = k[2])[3]]

\* length of the file: a cut file ends one byte inside its last record block
file_len(d, z, o) ==
    o.record_blocks + sum_seq(z.rb_pack)
        - (IF d.rb_status # << >> /\ d.rb_status[Len(d.rb_status)] = "cut" THEN 1 ELSE 0)

\* the sections of the file written for dictionary d
sections_of(d) ==
    LET placed(z, o, kb_first, starts) ==
            [len |-> file_len(d, z, o),
             sections |-> section_map({t \in fixed_sections(d, z, o, kb_first) : t[2] > 0}
                                      \cup key_block_sections(d, z, o, kb_first, starts)
                                      \cup record_block_sections(d, z, o))]
        sized(m, z, kb_first, starts) == placed(z, section_offsets(d, m, z), kb_first, starts)
        laid_out(m, lens, kb_first, rb_first) ==
            sized(m, block_sizes(d, m, lens, kb_first, rb_first), kb_first,
                  [i \in DOMAIN lens |-> accum(lens, i)])
    IN  laid_out(meta_of(header_with_defaults(d.attrs), d.ext),
                 [i \in 1..Len(d.entries) |-> d.entries[i].rec_len],
                 first_of(d.kb_counts), first_of(d.rb_counts))

\* the file on disk of dictionary d
file_of(d) ==
    LET stored(s) ==
            [ext |-> d.ext, attrs |-> d.attrs, entries |-> d.entries,
             kb_counts |-> d.kb_counts, rb_counts |-> d.rb_counts, rb_status |-> d.rb_status,
             len |-> s.len, sections |-> s.sections]
    IN  stored(sections_of(d))

\* the stored bytes [offset, offset + length) of the file, by section
file_region(f, offset, length) ==
    IF <<offset, length>> \in DOMAIN f.sections
    THEN f.sections[<<offset, length>>]
    ELSE [sec |-> "other"]

\* ------------------------------------------------------------ construction
Max(a, b) == IF a >= b THEN a ELSE b

Min(a, b) == IF a <= b THEN a ELSE b

\* read_buffer that cannot move the cursor backwards
read_buffer_forward_only(f, cur, offset, length) ==
    IF cur > offset \/ offset + length > f.len
    THEN [res |-> Err("Io"), cursor |-> Max(cur, Max(offset, f.len))]
    ELSE [res |-> Ok(file_region(f, offset, length)), cursor |-> offset + length]

\* MdictBase::read_buffer: seek to offset, then read_exact length bytes.
\* cur is the cursor the previous read left; the seek overrides it.
read_buffer(f, cur, offset, length) ==
    IF offset + length > f.len
    THEN [res |-> Err("Io"), cursor |-> Max(offset, f.len)]
    ELSE [res |-> Ok(file_region(f, offset, length)), cursor |-> offset + length]

\* MdictBase::new: the handle before read_dict
new_base(ext) ==
    [header |-> << >>,
     meta |-> [ext |-> ext, encrypt |-> "None", version |-> 12, num_width |-> 4,
               num_fmt |-> "Uint32", encoding |-> "Utf8", passcode |-> None],
     key_header |-> [keyword_blocks_num |-> 0, keyword_num |-> 0, key_info_unpack_size |-> 0,
                     key_info_packed_size |-> 0, keyword_block_packed_size |-> 0],
     key_info_list |-> << >>,
     keyword_list |-> << >>,
     record_header |-> [record_blocks_num |-> 0, entries_num |-> 0,
                        record_info_comp_size |-> 0, record_block_comp_size |-> 0],
     record_info_list |-> << >>,
     header_end_offset |-> 0, key_header_start_offset |-> 0, key_header_end_offset |-> 0,
     key_block_info_start_offset |-> 0, key_block_info_end_offset |-> 0,
     record_header_start_offset |-> 0, record_header_end_offset |-> 0,
     record_info_start_offset |-> 0, record_info_end_offset |-> 0,
     record_block_start_offset |-> 0,
     cursor |-> 0,
     reads |-> << >>]

\* the handle after one read_buffer call
after_read(b, rd, offset, length) ==
    [b EXCEPT !.cursor = rd.cursor, !.reads = Append(@, <<b.cursor, offset, length>>)]

\* one read_buffer(offset, length)? of the constructor: on failure the step
\* returns the error, otherwise it goes on with the handle and the bytes read
read_then(f, b, offset, length, Rest(_, _)) ==
    LET done(rd) ==
            IF ~rd.res.ok THEN Err(rd.res.err)
            ELSE Rest(after_read(b, rd, offset, length), rd.res.val)
    IN  done(read_buffer(f, b.cursor, offset, length))

\* MdictBase::read_header
read_header(f, b) ==
    read_then(f, b, 0, 4, LAMBDA b1, header_size_buf :
        read_then(f, b1, 4, header_size_buf.value, LAMBDA b2, header_buffer :
            LET decoded(hdr) ==
                    Ok([b2 EXCEPT !.header_end_offset = header_size_buf.value + 4 + 4,
                                  !.key_header_start_offset = header_size_buf.value + 4 + 4,
                                  !.header = hdr,
                                  !.meta = meta_of(hdr, b.meta.ext)])
            IN  decoded(header_with_defaults(header_buffer.attrs))))

\* MdictBase::read_key_header
read_key_header(f, b) ==
    LET start == b.header_end_offset
        header_meta_size == IF b.meta.version >= 20 THEN 8 * 5 ELSE 4 * 4
        end == start + header_meta_size + (IF b.meta.version >= 20 THEN 4 ELSE 0)
    IN  read_then(f, b, start, header_meta_size, LAMBDA b1, kh :
            IF b.meta.encrypt = "RecordBlock" /\ ~b.meta.passcode.some
            THEN Err("EncryptedFileRequiresPasscode")
            ELSE Ok([b1 EXCEPT
                    !.key_header_start_offset = start,
                    !.key_header = [keyword_blocks_num |-> kh.keyword_blocks_num,
                                    keyword_num |-> kh.keyword_num,
                                    key_info_unpack_size |->
                                        IF b.meta.version >= 20 THEN kh.key_info_unpack_size
                                        ELSE 0,
                                    key_info_packed_size |-> kh.key_info_packed_size,
                                    keyword_block_packed_size |-> kh.keyword_block_packed_size],
                    !.key_header_end_offset = end,
                    !.key_block_info_start_offset = end]))

\* MdictBase::decode_key_info: one descriptor per key block, with the
\* running sums of the sizes and entry counts before it
decode_key_info(b, blocks) ==
    [i \in 1..b.key_header.keyword_blocks_num |->
        [first_key |-> blocks[i].first_word,
         last_key |-> blocks[i].last_word,
         key_block_pack_size |-> blocks[i].pack_size,
         key_block_pack_accumulator |-> sum_seq([j \in 1..i - 1 |-> blocks[j].pack_size]),
         key_block_unpack_size |-> blocks[i].unpack_size,
         key_block_unpack_accumulator |-> sum_seq([j \in 1..i - 1 |-> blocks[j].unpack_size]),
         key_block_entries_num |-> blocks[i].entries,
         key_block_entries_num_accumulator |-> sum_seq([j \in 1..i - 1 |-> blocks[j].entries]),
         key_block_info_index |-> i - 1]]

\* MdictBase::read_key_infos
read_key_infos(f, b) ==
    LET key_info_size == b.key_header.key_info_packed_size
    IN  read_then(f, b, b.key_block_info_start_offset, key_info_size, LAMBDA b1, buf :
            Ok([b1 EXCEPT
                !.key_info_list =
                    decode_key_info(b, IF buf.sec = "key_info" THEN buf.blocks ELSE << >>),
                !.key_block_info_end_offset = b.key_block_info_start_offset + key_info_size]))

\* CompressionType::from_bytes on the 4-byte type code
CompressionType_from(code) ==
    CASE code = 0 -> Some("None")
      [] code = 1 -> Some("Lzo")
      [] code = 2 -> Some("Zlib")
      [] OTHER -> None

\* MdictBase::unpack_key_block
unpack_key_block(packed_buf) ==
    IF packed_buf.sec # "key_block" \/ ~CompressionType_from(packed_buf.type).some
    THEN Err("InvalidCompressionType")
    ELSE Ok(packed_buf.keys)

\* MdictBase::split_key_block: every entry starts with end offset 0
split_key_block(key_block, key_block_idx) ==
    [j \in 1..Len(key_block) |->
        [record_start_offset |-> key_block[j].offset,
         record_end_offset |-> 0,
         key_text |-> key_block[j].key_text,
         key_block_idx |-> key_block_idx]]

\* set_record_ends with the loop started one entry late
set_record_ends_from_second(list) ==
    [i \in 1..Len(list) |->
        IF 1 < i /\ i < Len(list)
        THEN [list[i] EXCEPT !.record_end_offset = list[i + 1].record_start_offset]
        ELSE list[i]]

\* read_key_blocks, second loop: each entry ends where the next one read starts
set_record_ends(list) ==
    [i \in 1..Len(list) |->
        IF i < Len(list)
        THEN [list[i] EXCEPT !.record_end_offset = list[i + 1].record_start_offset]
        ELSE list[i]]

\* read_key_blocks, first loop from key block i (1-based) on
RECURSIVE read_key_blocks_from(_, _, _)
read_key_blocks_from(f, b, i) ==
    IF i > Len(b.key_info_list) THEN Ok(b)
    ELSE LET ki == b.key_info_list[i]
             offset == b.key_block_info_end_offset + ki.key_block_pack_accumulator
             split(b1, unpacked) ==
                 IF ~unpacked.ok THEN Err(unpacked.err)
                 ELSE read_key_blocks_from(f,
                         [b1 EXCEPT !.keyword_list = @ \o split_key_block(unpacked.val, i - 1)],
                         i + 1)
         IN  read_then(f, b, offset, ki.key_block_pack_size, LAMBDA b1, packed_buf :
                 split(b1, unpack_key_block(packed_buf)))

\* MdictBase::read_key_blocks
read_key_blocks(f, b) ==
    LET ended(r) == IF ~r.ok THEN r ELSE Ok([r.val EXCEPT !.keyword_list = set_record_ends(@)])
    IN  ended(read_key_blocks_from(f, b, 1))

\* MdictBase::read_record_header
read_record_header(f, b) ==
    LET start == b.key_block_info_end_offset + b.key_header.keyword_block_packed_size
        record_header_len == IF b.meta.version >= 20 THEN 4 * 8 ELSE 4 * 4
    IN  read_then(f, b, start, record_header_len, LAMBDA b1, rh :
            Ok([b1 EXCEPT
                !.record_header_start_offset = start,
                !.record_header_end_offset = start + record_header_len,
                !.record_header = [record_blocks_num |-> rh.record_blocks_num,
                                   entries_num |-> rh.entries_num,
                                   record_info_comp_size |-> rh.record_info_comp_size,
                                   record_block_comp_size |-> rh.record_block_comp_size]]))

\* MdictBase::read_record_infos
read_record_infos(f, b) ==
    LET start == b.record_header_end_offset
        record_info_size == b.record_header.record_info_comp_size
        decoded(blocks) ==
            [i \in 1..b.record_header.record_blocks_num |->
                [pack_size |-> blocks[i].pack_size,
                 pack_accumulate_offset |-> sum_seq([j \in 1..i - 1 |-> blocks[j].pack_size]),
                 unpack_size |-> blocks[i].unpack_size,
                 unpack_accumulate_offset |->
                     sum_seq([j \in 1..i - 1 |-> blocks[j].unpack_size])]]
    IN  read_then(f, b, start, record_info_size, LAMBDA b1, buf :
            Ok([b1 EXCEPT
                !.record_info_list =
                    decoded(IF buf.sec = "record_info" THEN buf.blocks ELSE << >>),
                !.record_info_start_offset = start,
                !.record_info_end_offset = start + record_info_size,
                !.record_block_start_offset = start + record_info_size]))

\* the comparison of read_dict's sort_by closure
sort_cmp(a, b, is_mdd) == cmp(strip_key(a.key_text, is_mdd), strip_key(b.key_text, is_mdd))

\* sort_insert that resets the end offset of the entry it inserts
RECURSIVE sort_insert_clearing_end(_, _, _)
sort_insert_clearing_end(q, x, is_mdd) ==
    IF q = << >> THEN <<[x EXCEPT !.record_end_offset = 0]>>
    ELSE IF sort_cmp(x, Head(q), is_mdd) = "Less" THEN <<[x EXCEPT !.record_end_offset = 0]>> \o q
    ELSE <<Head(q)>> \o sort_insert_clearing_end(Tail(q), x, is_mdd)

\* stable insertion of x into the sorted list q: after every entry not greater
RECURSIVE sort_insert(_, _, _)
sort_insert(q, x, is_mdd) ==
    IF q = << >> THEN <<x>>
    ELSE IF sort_cmp(x, Head(q), is_mdd) = "Less" THEN <<x>> \o q
    ELSE <<Head(q)>> \o sort_insert(Tail(q), x, is_mdd)

\* slice::sort_by (stable) with the closure of read_dict
RECURSIVE sort_keyword_list(_, _)
sort_keyword_list(list, is_mdd) ==
    IF list = << >> THEN << >>
    ELSE sort_insert(sort_keyword_list(SubSeq(list, 1, Len(list) - 1), is_mdd),
                     list[Len(list)], is_mdd)

\* ------------------------------------------------------------ query engine
\* MdictBase::strip
strip(b, key) ==
    LET lowered(r) == IF get_or(b.header, "KeyCaseSensitive", NO) = NO THEN to_lowercase(r) ELSE r
    IN  trim(lowered(IF get_or(b.header, "StripKey", YES) = YES
                     THEN strip_key(key, b.meta.ext = "Mdd") ELSE key))

\* compare_keys that compares the key texts as written
compare_keys_as_written(b, x, y) == cmp(x, y)

\* MdictBase::compare_keys
compare_keys(b, x, y) == cmp(strip(b, x), strip(b, y))

\* search_loop that forgets the probe when it goes right
RECURSIVE search_loop_keeping_mid(_, _, _, _, _)
search_loop_keeping_mid(b, word, left, right, mid) ==
    IF left > right THEN mid
    ELSE LET m == left + (right - left) \div 2
             step(cmp_result) ==
                 CASE cmp_result = "Greater" -> search_loop_keeping_mid(b, word, m + 1, right, mid)
                   [] cmp_result = "Equal" -> m
                   [] OTHER -> IF m = 0 THEN m
                               ELSE search_loop_keeping_mid(b, word, left, m - 1, m)
         IN  step(compare_keys(b, word, b.keyword_list[m + 1].key_text))

\* lookup_keyword_by_word, the while loop: the value of mid when it ends.
\* left, right and mid are the 0-based indices of the code.
RECURSIVE search_loop(_, _, _, _, _)
search_loop(b, word, left, right, mid) ==
    IF left > right THEN mid
    ELSE LET m == left + (right - left) \div 2
             step(cmp_result) ==
                 CASE cmp_result = "Greater" -> search_loop(b, word, m + 1, right, m)
                   [] cmp_result = "Equal" -> m
                   [] OTHER -> IF m = 0 THEN m ELSE search_loop(b, word, left, m - 1, m)
         IN  step(compare_keys(b, word, b.keyword_list[m + 1].key_text))

\* MdictBase::lookup_keyword_by_word
lookup_keyword_by_word(b, word, is_associate) ==
    LET list == b.keyword_list
        at(mid) ==
            IF ~is_associate /\ compare_keys(b, word, list[mid + 1].key_text) # "Equal"
            THEN None
            ELSE Some(list[mid + 1])
    IN  IF list = << >> THEN None ELSE at(search_loop(b, word, 0, Len(list) - 1, 0))

\* find_loop that goes right only past accumulators below record_start
RECURSIVE find_loop_strict(_, _, _, _)
find_loop_strict(b, record_start, left, right) ==
    IF left >= right THEN left
    ELSE LET m == left + (right - left) \div 2
         IN  IF record_start > b.record_info_list[m + 1].unpack_accumulate_offset
             THEN find_loop_strict(b, record_start, m + 1, right)
             ELSE find_loop_strict(b, record_start, left, m)

\* find_record_block_index, the while loop
RECURSIVE find_loop(_, _, _, _)
find_loop(b, record_start, left, right) ==
    IF left >= right THEN left
    ELSE LET m == left + (right - left) \div 2
         IN  IF record_start >= b.record_info_list[m + 1].unpack_accumulate_offset
             THEN find_loop(b, record_start, m + 1, right)
             ELSE find_loop(b, record_start, left, m)

\* find_record_block_index that never leaves the first block
find_record_block_index_first(b, record_start) ==
    LET index(left) == IF left > 0 THEN left - 1 ELSE 0
    IN  index(find_loop(b, record_start, 0, 0))

\* MdictBase::find_record_block_index (0-based)
find_record_block_index(b, record_start) ==
    LET index(left) == IF left > 0 THEN left - 1 ELSE 0
    IN  index(find_loop(b, record_start, 0, Len(b.record_info_list)))

\* flate2 ZlibDecoder::read_to_end on the payload of a block
zlib_decode(buf) == IF buf.intact THEN Ok(buf.plain) ELSE Err("Io")

\* lzo::decompress on the payload of a block
lzo_decompress(buf, unpack_size) ==
    IF buf.intact THEN Ok(buf.plain) ELSE Err("DecompressionError")

\* MdictBase::decompress_record_block
decompress_record_block(b, record_buffer, unpack_size) ==
    LET unpack(comp_type) ==
            IF ~comp_type.some THEN Err("InvalidCompressionType")
            ELSE CASE comp_type.val = "None" -> Ok(record_buffer.plain)
                   [] comp_type.val = "Lzo" -> lzo_decompress(record_buffer, unpack_size)
                   [] OTHER -> zlib_decode(record_buffer)
    IN  unpack(IF record_buffer.sec = "record_block"
               THEN CompressionType_from(record_buffer.type) ELSE None)

\* record_slice without the end-of-block reading of a zero end offset
record_slice_no_sentinel(item, unpack_accumulate_offset, unpacked_buffer) ==
    LET start == item.record_start_offset - unpack_accumulate_offset
        end == Max(item.record_end_offset, item.record_start_offset) - unpack_accumulate_offset
    IN  SubSeq(unpacked_buffer, start + 1, Min(end, Len(unpacked_buffer)))

\* the slice unpacked_buffer[start..end.min(len)] of lookup_record_by_keyword
record_slice(item, unpack_accumulate_offset, unpacked_buffer) ==
    LET start == item.record_start_offset - unpack_accumulate_offset
        end == IF item.record_end_offset > 0
               THEN item.record_end_offset - unpack_accumulate_offset
               ELSE Len(unpacked_buffer)
    IN  SubSeq(unpacked_buffer, start + 1, Min(end, Len(unpacked_buffer)))

\* lookup_record_by_keyword that writes the end of the returned slice back
\* into the keyword entry
lookup_record_by_keyword_fixing_end(f, b, item) ==
    LET fixed(b1, slice) ==
            [res |-> Ok(slice),
             base |-> [b1 EXCEPT !.keyword_list =
                 [i \in DOMAIN @ |->
                     IF @[i].key_text = item.key_text
                     THEN [@[i] EXCEPT !.record_end_offset =
                               item.record_start_offset + Len(slice)]
                     ELSE @[i]]]]
        sliced(ri, b1, unpacked) ==
            IF ~unpacked.ok THEN [res |-> Err(unpacked.err), base |-> b1]
            ELSE fixed(b1, record_slice(item, ri.unpack_accumulate_offset, unpacked.val))
        read(ri, offset, rd) ==
            IF ~rd.res.ok
            THEN [res |-> Err(rd.res.err), base |-> after_read(b, rd, offset, ri.pack_size)]
            ELSE sliced(ri, after_read(b, rd, offset, ri.pack_size),
                        decompress_record_block(b, rd.res.val, ri.unpack_size))
        in_block(ri, offset) == read(ri, offset, read_buffer(f, b.cursor, offset, ri.pack_size))
        selected(ri) == in_block(ri, b.record_block_start_offset + ri.pack_accumulate_offset)
    IN  selected(b.record_info_list[find_record_block_index(b, item.record_start_offset) + 1])

\* MdictBase::lookup_record_by_keyword: the result and the handle afterwards
lookup_record_by_keyword(f, b, item) ==
    LET sliced(ri, b1, unpacked) ==
            IF ~unpacked.ok THEN [res |-> Err(unpacked.err), base |-> b1]
            ELSE [res |-> Ok(record_slice(item, ri.unpack_accumulate_offset, unpacked.val)),
                  base |-> b1]
        read(ri, offset, rd) ==
            IF ~rd.res.ok
            THEN [res |-> Err(rd.res.err), base |-> after_read(b, rd, offset, ri.pack_size)]
            ELSE sliced(ri, after_read(b, rd, offset, ri.pack_size),
                        decompress_record_block(b, rd.res.val, ri.unpack_size))
        in_block(ri, offset) == read(ri, offset, read_buffer(f, b.cursor, offset, ri.pack_size))
        selected(ri) == in_block(ri, b.record_block_start_offset + ri.pack_accumulate_offset)
    IN  selected(b.record_info_list[find_record_block_index(b, item.record_start_offset) + 1])

\* get_prefix_keywords that matches on the normalised forms
get_prefix_keywords_stripping(b, prefix) ==
    SelectSeq(b.keyword_list,
              LAMBDA item : starts_with(strip_key(item.key_text, b.meta.ext = "Mdd"),
                                        strip_key(prefix, b.meta.ext = "Mdd")))

\* MdictBase::get_prefix_keywords
get_prefix_keywords(b, prefix) ==
    SelectSeq(b.keyword_list,
              LAMBDA item : starts_with(to_lowercase(item.key_text), to_lowercase(prefix)))

\* get_associated_keywords that returns the whole keyword list on a hit
get_associated_keywords_whole_list(b, word) ==
    LET of_block(found) == IF found.some THEN b.keyword_list ELSE << >>
    IN  of_block(lookup_keyword_by_word(b, word, TRUE))

\* MdictBase::get_associated_keywords
get_associated_keywords(b, word) ==
    LET of_block(found) ==
            IF found.some
            THEN SelectSeq(b.keyword_list,
                           LAMBDA kw : kw.key_block_idx = found.val.key_block_idx)
            ELSE << >>
    IN  of_block(lookup_keyword_by_word(b, word, TRUE))

\* the table entry dp[i][j] filled without the substitution of a character
RECURSIVE dp_without_substitution(_, _, _, _)
dp_without_substitution(a, c, i, j) ==
    IF i = 0 THEN j
    ELSE IF j = 0 THEN i
    ELSE IF a[i] # c[j]
         THEN 1 + Min(dp_without_substitution(a, c, i - 1, j),
                      dp_without_substitution(a, c, i, j - 1))
         ELSE dp_without_substitution(a, c, i - 1, j - 1)

\* utils::levenshtein_distance, the table entry dp[i][j]
RECURSIVE dp(_, _, _, _)
dp(a, c, i, j) ==
    IF i = 0 THEN j
    ELSE IF j = 0 THEN i
    ELSE IF a[i] # c[j]
         THEN 1 + Min(Min(dp(a, c, i - 1, j), dp(a, c, i, j - 1)), dp(a, c, i - 1, j - 1))
         ELSE dp(a, c, i - 1, j - 1)

\* utils::levenshtein_distance
levenshtein_distance(a, c) ==
    IF Len(a) = 0 THEN Len(c)
    ELSE IF Len(c) = 0 THEN Len(a)
    ELSE dp(a, c, Len(a), Len(c))

\* encoding_rs UTF_16LE.decode on bytes without a byte-order mark
RECURSIVE utf16le_units(_)
utf16le_units(bytes) ==
    IF Len(bytes) < 2 THEN << >>
    ELSE <<bytes[1] + 256 * bytes[2]>> \o utf16le_units(SubSeq(bytes, 3, Len(bytes)))

\* utils::decode_string on payloads of bytes below 128
decode_string(bytes, encoding) ==
    IF encoding = "Utf16Le"
    THEN IF Len(bytes) % 2 = 1 THEN Err("EncodingError") ELSE Ok(utf16le_units(bytes))
    ELSE Ok(bytes)

\* decode_string(..).unwrap_or_else(|_| String::from_utf8_lossy(..))
decode_definition(bytes, encoding) ==
    LET d == decode_string(bytes, encoding)
    IN  IF d.ok THEN d.val ELSE bytes

\* one character of the standard base64 alphabet
base64_char(v) ==
    CASE v < 26 -> 65 + v
      [] v < 52 -> 97 + (v - 26)
      [] v < 62 -> 48 + (v - 52)
      [] v = 62 -> 43
      [] OTHER -> 47

\* base64 STANDARD.encode
RECURSIVE base64_encode(_)
base64_encode(bytes) ==
    IF bytes = << >> THEN << >>
    ELSE LET n == Min(3, Len(bytes))
             b1 == bytes[1]
             b2 == IF n >= 2 THEN bytes[2] ELSE 0
             b3 == IF n >= 3 THEN bytes[3] ELSE 0
             c1 == base64_char(b1 \div 4)
             c2 == base64_char((b1 % 4) * 16 + b2 \div 16)
             c3 == IF n >= 2 THEN base64_char((b2 % 16) * 4 + b3 \div 64) ELSE 61
             c4 == IF n >= 3 THEN base64_char(b3 % 64) ELSE 61
         IN  <<c1, c2, c3, c4>> \o base64_encode(SubSeq(bytes, n + 1, Len(bytes)))

\* ------------------------------------------------- the whole constructor
\* Result::and_then, the ? operator between the steps of read_dict
and_then(r, Step(_)) == IF r.ok THEN Step(r.val) ELSE r

\* the first failure among the record blocks of the keywords from i on
RECURSIVE check_records(_, _, _)
check_records(f, b, i) ==
    LET next(r) == IF r.res.ok THEN check_records(f, r.base, i + 1) ELSE Err(r.res.err)
    IN  IF i > Len(b.keyword_list) THEN Ok(b)
        ELSE next(lookup_record_by_keyword(f, b, b.keyword_list[i]))

\* read_dict that also reads and decompresses the record of every keyword
read_dict_checking_records(f, b) ==
    LET s1 == read_header(f, b)
        s2 == and_then(s1, LAMBDA x : read_key_header(f, x))
        s3 == and_then(s2, LAMBDA x : read_key_infos(f, x))
        s4 == and_then(s3, LAMBDA x : read_key_blocks(f, x))
        s5 == and_then(s4, LAMBDA x : read_record_header(f, x))
        s6 == and_then(s5, LAMBDA x : read_record_infos(f, x))
        s7 == and_then(s6, LAMBDA x :
                  Ok([x EXCEPT !.keyword_list = sort_keyword_list(@, x.meta.ext = "Mdd")]))
    IN  and_then(s7, LAMBDA x : check_records(f, x, 1))

\* MdictBase::read_dict
read_dict(f, b) ==
    LET s1 == read_header(f, b)
        s2 == and_then(s1, LAMBDA x : read_key_header(f, x))
        s3 == and_then(s2, LAMBDA x : read_key_infos(f, x))
        s4 == and_then(s3, LAMBDA x : read_key_blocks(f, x))
        s5 == and_then(s4, LAMBDA x : read_record_header(f, x))
        s6 == and_then(s5, LAMBDA x : read_record_infos(f, x))
    IN  and_then(s6, LAMBDA x :
            Ok([x EXCEPT !.keyword_list = sort_keyword_list(@, x.meta.ext = "Mdd")]))

\* ------------------------------------------------------------------- state
\* file:       the dictionary file on disk (never written)
\* status:     "closed" before the constructor ran, then "open" or "failed"
\* open_err:   the error the constructor returned, "" if none
\* base:       the MdictBase of the Mdx / Mdd handle; base.cursor is the
\*             position of its File, base.reads the <<position before,
\*             offset, length>> of the read_buffer calls made by the
\*             operation that ran last
\* result:     what the last query returned (val), with the keyword entry it
\*             resolved (item) and the outcome of its record fetch (raw)
\* probe:      a call of one of the crate's pure functions: the function
\*             (fn), its argument (arg), whether it has returned (done) and
\*             what it returned (val)
\* lzo:        the Lzo1xDecompressor of a decompress call
VARIABLES file, status, open_err, base, result, probe, lzo

vars == <<file, status, open_err, base, result, probe, lzo>>

\* no pure function is being called
NoProbe == [fn |-> "none", arg |-> << >>, done |-> FALSE, val |-> << >>]

\* Lzo1xDecompressor::new
NoLzo == [input |-> << >>, output |-> << >>, ip |-> 0, op |-> 0, t |-> 0, pc |-> "new",
          res |-> None]

\* ---------------------------------------------------------------- fixtures
\* "Ab", "a-c", "a.b", "a.c"
KeyTexts == {<<65, 98>>, <<97, 45, 99>>, <<97, 46, 98>>, <<97, 46, 99>>}

\* sequences without repetition of at most n elements of S
distinct_seqs(S, n) ==
    {q \in UNION {[1..k -> S] : k \in 0..n} : \A i, j \in 1..Len(q) : i < j => q[i] # q[j]}

one_block(n) == IF n = 0 THEN << >> ELSE <<n>>

\* n entries in key blocks of two entries, the last one holding the rest
RECURSIVE blocks_of_two(_)
blocks_of_two(n) == IF n <= 2 THEN one_block(n) ELSE <<2>> \o blocks_of_two(n - 2)

all_intact(counts) == [i \in 1..Len(counts) |-> "none"]

\* key family: any keys in any file order under every StripKey /
\* KeyCaseSensitive setting, key blocks of two entries and one record block
KeyFiles ==
    {[ext |-> e,
      attrs |-> [n \in {"StripKey", "KeyCaseSensitive"} |-> IF n = "StripKey" THEN sk ELSE cs],
      entries |-> [i \in 1..Len(ks) |-> [key_text |-> ks[i], rec_len |-> 1]],
      kb_counts |-> blocks_of_two(Len(ks)),
      rb_counts |-> one_block(Len(ks)),
      rb_status |-> all_intact(one_block(Len(ks)))] :
        e \in {"Mdx", "Mdd"}, sk \in {YES, NO}, cs \in {YES, NO},
        ks \in distinct_seqs(KeyTexts, MaxKeys)}

\* "a-c", "ab", "Ab": the order of a writer that does not strip keys
LayoutKeys == <<<<97, 45, 99>>, <<97, 98>>, <<65, 98>>>>

\* layout family: every record length and every split into record blocks
LayoutFiles ==
    {[ext |-> e,
      attrs |-> << >>,
      entries |-> [i \in 1..3 |-> [key_text |-> LayoutKeys[i], rec_len |-> lens[i]]],
      kb_counts |-> <<1, 2>>,
      rb_counts |-> rb,
      rb_status |-> all_intact(rb)] :
        e \in {"Mdx", "Mdd"},
        lens \in [1..3 -> 0..MaxRecLen],
        rb \in {<<3>>, <<1, 2>>, <<2, 1>>, <<1, 1, 1>>}}

BlockStatus == {"none", "lzo", "zlib", "lzo_bad", "zlib_bad", "badtype"}

\* one status per record block; only the last block can be cut off
status_seqs(n) ==
    {st \in [1..n -> BlockStatus \cup {"cut"}] : \A i \in 1..n - 1 : st[i] # "cut"}

\* what a file can declare wrongly: nothing, the entries of its first key
\* block, or the entries of its record header
Miscounts == {"none", "key_info", "record_header"}

\* damage family: record blocks of every compression type, some unreadable,
\* and files of readable blocks whose declared entry counts are off by one
DamageFiles ==
    {d \in UNION {{[ext |-> e,
                    attrs |-> << >>,
                    entries |-> [i \in 1..3 |->
                        [key_text |-> LayoutKeys[i], rec_len |-> <<2, 1, 2>>[i]]],
                    kb_counts |-> <<3>>,
                    rb_counts |-> rb,
                    rb_status |-> st,
                    miscount |-> mc] :
                      e \in {"Mdx", "Mdd"}, st \in status_seqs(Len(rb)), mc \in Miscounts} :
                  rb \in {<<3>>, <<1, 2>>}} :
        d.miscount = "none" \/ d.rb_status = all_intact(d.rb_counts)}

\* values of the Encrypted attribute: "", "No", "Yes", "yes", "0", "1", "2",
\* "02", "3", "256", "x"
EncryptedValues ==
    {<< >>, NO, YES, <<121, 101, 115>>, <<48>>, <<49>>, <<50>>, <<48, 50>>, <<51>>,
     <<50, 53, 54>>, <<120>>}

\* values of GeneratedByEngineVersion: "1.2", "2.0"
VersionValues == {<<49, 46, 50>>, <<50, 46, 48>>}

\* values of Encoding: "", "UTF-8", "UTF-16", "utf-16", "utf16", "GBK", "gbk",
\* "gb2312", "Big5", "big5"
EncodingValues ==
    {<< >>, <<85, 84, 70, 45, 56>>, <<85, 84, 70, 45, 49, 54>>, <<117, 116, 102, 45, 49, 54>>,
     <<117, 116, 102, 49, 54>>, <<71, 66, 75>>, <<103, 98, 107>>,
     <<103, 98, 50, 51, 49, 50>>, <<66, 105, 103, 53>>, <<98, 105, 103, 53>>}

\* the header attributes: each of the three present with a value, or absent
header_attrs(enc, ver, cod) ==
    [n \in (IF enc.some THEN {"Encrypted"} ELSE {})
           \cup (IF ver.some THEN {"GeneratedByEngineVersion"} ELSE {})
           \cup (IF cod.some THEN {"Encoding"} ELSE {}) |->
        CASE n = "Encrypted" -> enc.val
          [] n = "GeneratedByEngineVersion" -> ver.val
          [] OTHER -> cod.val]

optional(S) == {None} \cup {Some(v) : v \in S}

\* "a_b", "ab", "b." with records of 1, 2 and 1 bytes
HeaderEntries ==
    <<[key_text |-> <<97, 95, 98>>, rec_len |-> 1],
      [key_text |-> <<97, 98>>, rec_len |-> 2],
      [key_text |-> <<98, 46>>, rec_len |-> 1]>>

\* header family: every Encrypted attribute under every version, and every
\* Encoding attribute under every version
HeaderFiles ==
    {[ext |-> e,
      attrs |-> header_attrs(h[1], ver, h[2]),
      entries |-> HeaderEntries,
      kb_counts |-> <<2, 1>>,
      rb_counts |-> <<1, 2>>,
      rb_status |-> <<"zlib", "none">>] :
        e \in {"Mdx", "Mdd"}, ver \in optional(VersionValues),
        h \in (optional(EncryptedValues) \X {None}) \cup ({None} \X optional(EncodingValues))}

\* ----------------------------------------------------------------- actions
NoResult == [op |-> "none", arg |-> << >>, val |-> None, item |-> None, raw |-> None]

\* before the constructor runs, on the file of one of the dictionaries
InitOn(dictionaries) ==
    /\ \E d \in dictionaries : file = file_of(d)
    /\ status = "closed"
    /\ open_err = ""
    /\ base = new_base(file.ext)
    /\ result = NoResult
    /\ probe = NoProbe
    /\ lzo = NoLzo

InitKeys == InitOn(KeyFiles)

InitLayout == InitOn(LayoutFiles)

InitDamage == InitOn(DamageFiles)

InitHeader == InitOn(HeaderFiles)

\* Mdx::new / Mdd::new: MdictBase::new runs read_dict; an error returns no handle
Open ==
    /\ status = "closed"
    /\ LET built(r) ==
               IF r.ok
               THEN status' = "open" /\ base' = r.val /\ open_err' = ""
               ELSE status' = "failed" /\ base' = base /\ open_err' = r.err
       IN  built(read_dict(file, base))
    /\ UNCHANGED <<file, result, probe, lzo>>

\* the words asked for: the keys of the file, "ac" and "z"
Words == {file.entries[i].key_text : i \in 1..Len(file.entries)} \cup {<<97, 99>>, <<122>>}

\* the words asked of associate: those of the other queries and "abb", which
\* no file holds and which falls between stored keys
ProbeWords == Words \cup {<<97, 98, 98>>}

\* the prefixes asked for: "A" and "a."
Prefixes == {<<65>>, <<97, 46>>}

\* max_distance arguments of suggest
Distances == {0, 1, 6}

\* <<max_results, max_distance>> arguments of fuzzy_search
FuzzyArgs == {<<1, 1>>, <<2, 6>>}

\* a query starts with an empty read log
fresh(b) == [b EXCEPT !.reads = << >>]

\* the payload as the front end presents it: Mdd encodes base64, Mdx decodes text
present(b, bytes) ==
    IF b.meta.ext = "Mdd" THEN base64_encode(bytes) ELSE decode_definition(bytes, b.meta.encoding)

\* Mdx::lookup / Mdd::locate: keyword, record, presentation; None on a miss
\* and on a failed fetch (.ok()?)
lookup(f, b, word) ==
    LET fetched(keyword_item, r) ==
            [val |-> IF r.res.ok
                     THEN Some([key_text |-> keyword_item.key_text,
                                definition |-> present(b, r.res.val)])
                     ELSE None,
             item |-> Some(keyword_item), raw |-> Some(r.res), base |-> r.base]
        found(keyword_item) ==
            IF ~keyword_item.some
            THEN [val |-> None, item |-> None, raw |-> None, base |-> b]
            ELSE fetched(keyword_item.val, lookup_record_by_keyword(f, b, keyword_item.val))
    IN  found(lookup_keyword_by_word(b, word, FALSE))

\* Mdd::locate_raw
locate_raw(f, b, resource_key) ==
    LET fetched(keyword_item, r) ==
            [val |-> IF r.res.ok THEN Some(r.res.val) ELSE None,
             item |-> Some(keyword_item), raw |-> Some(r.res), base |-> r.base]
        found(keyword_item) ==
            IF ~keyword_item.some
            THEN [val |-> None, item |-> None, raw |-> None, base |-> b]
            ELSE fetched(keyword_item.val, lookup_record_by_keyword(f, b, keyword_item.val))
    IN  found(lookup_keyword_by_word(b, resource_key, FALSE))

\* Mdx::fetch
fetch(f, b, item) ==
    LET fetched(r) ==
            [val |-> IF r.res.ok
                     THEN Some([key_text |-> item.key_text,
                                definition |-> decode_definition(r.res.val, b.meta.encoding)])
                     ELSE None,
             item |-> Some(item), raw |-> Some(r.res), base |-> r.base]
    IN  fetched(lookup_record_by_keyword(f, b, item))

\* Mdx::get_definition
get_definition(f, b, item) ==
    LET fetched(r) ==
            [val |-> IF r.res.ok THEN Some(decode_definition(r.res.val, b.meta.encoding))
                     ELSE None,
             item |-> Some(item), raw |-> Some(r.res), base |-> r.base]
    IN  fetched(lookup_record_by_keyword(f, b, item))

\* Mdx::prefix / Mdd::prefix, the loop over the matching keywords from i on
RECURSIVE prefix_loop(_, _, _, _, _)
prefix_loop(f, b, keywords, i, results) ==
    LET next(r) ==
            prefix_loop(f, r.base, keywords, i + 1,
                IF r.res.ok
                THEN Append(results, [key_text |-> keywords[i].key_text,
                                      definition |-> present(b, r.res.val)])
                ELSE results)
    IN  IF i > Len(keywords) THEN [val |-> results, base |-> b]
        ELSE next(lookup_record_by_keyword(f, b, keywords[i]))

\* Mdx::prefix / Mdd::prefix
prefix(f, b, p) == prefix_loop(f, b, get_prefix_keywords(b, p), 1, << >>)

\* the key texts of a list of keyword entries
key_texts(items) == [i \in 1..Len(items) |-> items[i].key_text]

\* Mdx::prefix_keys / Mdd::prefix_keys
prefix_keys(b, p) == key_texts(get_prefix_keywords(b, p))

\* the candidates of suggest / fuzzy_search within max_distance, each with
\* its distance, in keyword-list order
fuzzy_candidates(b, word, max_distance) ==
    LET scored(keywords, stripped_word) ==
            [i \in 1..Len(keywords) |->
                [item |-> keywords[i],
                 edit_distance |->
                     levenshtein_distance(strip_key(keywords[i].key_text, b.meta.ext = "Mdd"),
                                          stripped_word)]]
    IN  SelectSeq(scored(get_associated_keywords(b, word), strip_key(word, b.meta.ext = "Mdd")),
                  LAMBDA fw : fw.edit_distance <= max_distance)

\* sort_by_distance that leaves the candidates in keyword-list order
sort_by_distance_unsorted(q, d, top) == SelectSeq(q, LAMBDA fw : fw.edit_distance \in d..top)

\* slice::sort_by_key on the distance (stable), distances from d up to top
RECURSIVE sort_by_distance(_, _, _)
sort_by_distance(q, d, top) ==
    IF d > top THEN << >>
    ELSE SelectSeq(q, LAMBDA fw : fw.edit_distance = d) \o sort_by_distance(q, d + 1, top)

\* the key texts of a list of scored candidates
candidate_keys(sorted) == [i \in 1..Len(sorted) |-> sorted[i].item.key_text]

\* Vec::truncate
truncate(q, n) == SubSeq(q, 1, Min(n, Len(q)))

\* suggest that admits candidates one edit beyond max_distance
suggest_one_further(b, word, max_distance) ==
    IF max_distance > 5 THEN << >>
    ELSE candidate_keys(sort_by_distance(fuzzy_candidates(b, word, max_distance + 1),
                                         0, max_distance + 1))

\* Mdx::suggest
suggest(b, word, max_distance) ==
    IF max_distance > 5 THEN << >>
    ELSE candidate_keys(sort_by_distance(fuzzy_candidates(b, word, max_distance),
                                         0, max_distance))

\* Mdx::fuzzy_search
fuzzy_search(b, word, max_results, max_distance) ==
    truncate(sort_by_distance(fuzzy_candidates(b, word, max_distance), 0, max_distance),
             max_results)

\* a retrieval: the handle and the result move together
Retrieve(op, arg, r) ==
    /\ base' = r.base
    /\ result' = [op |-> op, arg |-> arg, val |-> r.val, item |-> r.item, raw |-> r.raw]
    /\ UNCHANGED <<file, status, open_err, probe, lzo>>

\* a query on the in-memory tables only
Answer(op, arg, val) ==
    /\ base' = fresh(base)
    /\ result' = [op |-> op, arg |-> arg, val |-> val, item |-> None, raw |-> None]
    /\ UNCHANGED <<file, status, open_err, probe, lzo>>

IsMdx == status = "open" /\ base.meta.ext = "Mdx"

IsMdd == status = "open" /\ base.meta.ext = "Mdd"

Items == {base.keyword_list[i] : i \in 1..Len(base.keyword_list)}

Lookup == IsMdx /\ \E w \in Words : Retrieve("lookup", w, lookup(file, fresh(base), w))

Locate == IsMdd /\ \E w \in Words : Retrieve("locate", w, lookup(file, fresh(base), w))

LocateRaw == IsMdd /\ \E w \in Words : Retrieve("locate_raw", w, locate_raw(file, fresh(base), w))

Fetch == IsMdx /\ \E it \in Items : Retrieve("fetch", it, fetch(file, fresh(base), it))

GetDefinition ==
    IsMdx /\ \E it \in Items : Retrieve("get_definition", it, get_definition(file, fresh(base), it))

Prefix ==
    /\ status = "open"
    /\ \E p \in Prefixes :
        LET found(r) ==
                /\ base' = r.base
                /\ result' = [op |-> "prefix", arg |-> p, val |-> r.val,
                              item |-> None, raw |-> None]
        IN  found(prefix(file, fresh(base), p))
    /\ UNCHANGED <<file, status, open_err, probe, lzo>>

PrefixKeys == status = "open" /\ \E p \in Prefixes : Answer("prefix_keys", p, prefix_keys(base, p))

\* Mdx::contains / Mdd::contains
Contains ==
    status = "open" /\ \E w \in Words :
        Answer("contains", w, lookup_keyword_by_word(base, w, FALSE).some)

\* Mdx::keyword_count / Mdd::resource_count
KeywordCount == status = "open" /\ Answer("keyword_count", << >>, Len(base.keyword_list))

\* Mdx::lookup_keyword
LookupKeyword ==
    IsMdx /\ \E w \in Words : Answer("lookup_keyword", w, lookup_keyword_by_word(base, w, FALSE))

\* Mdx::associate
Associate ==
    IsMdx /\ \E w \in ProbeWords : Answer("associate", w, get_associated_keywords(base, w))

Suggest ==
    IsMdx /\ \E w \in Words, d \in Distances : Answer("suggest", <<w, d>>, suggest(base, w, d))

FuzzySearch ==
    IsMdx /\ \E w \in Words, a \in FuzzyArgs :
        Answer("fuzzy_search", <<w, a[1], a[2]>>, fuzzy_search(base, w, a[1], a[2]))

Next ==
    \/ Open
    \/ Lookup
    \/ Locate
    \/ LocateRaw
    \/ Fetch
    \/ GetDefinition
    \/ Prefix
    \/ PrefixKeys
    \/ Contains
    \/ KeywordCount
    \/ LookupKeyword
    \/ Associate
    \/ Suggest
    \/ FuzzySearch


SpecKeys == InitKeys /\ [][Next]_vars

SpecLayout == InitLayout /\ [][Next]_vars

SpecDamage == InitDamage /\ [][Next]_vars

SpecHeader == InitHeader /\ [][Next]_vars

\* ------------------------------------------------------------------ claims
Retrievals == {"lookup", "fetch", "get_definition", "locate", "locate_raw"}

\* the keyword list of the open handle, as a set of indices
Indices == 1..Len(base.keyword_list)

\* the position (1-based) in key-block order of the entry with this key text
file_pos(key_text) == CHOOSE p \in 1..Len(file.entries) : file.entries[p].key_text = key_text

\* C1: on an open handle every keyword compares Equal to itself and the
\* exact lookup of its key text returns an entry that compares Equal to it,
\* never the absent result, under every StripKey / KeyCaseSensitive setting
\* and for both file kinds.
C1_ExactLookupFindsEveryKeyword ==
    status = "open" =>
        \A i \in Indices :
            LET k == base.keyword_list[i].key_text
                r == lookup_keyword_by_word(base, k, FALSE)
            IN  /\ compare_keys(base, k, k) = "Equal"
                /\ r.some
                /\ compare_keys(base, r.val.key_text, k) = "Equal"

\* C2: after construction the keyword list is sorted under compare_keys:
\* for all i < j, compare_keys(list[i], list[j]) is Less or Equal, under
\* every StripKey / KeyCaseSensitive setting and for both file kinds.
C2_SortedUnderCompareKeys ==
    status = "open" =>
        \A i, j \in Indices :
            i < j => compare_keys(base, base.keyword_list[i].key_text,
                                  base.keyword_list[j].key_text) \in {"Less", "Equal"}

\* the entry of the open handle's keyword list read at position p of the file
entry_read_at(p) ==
    base.keyword_list[CHOOSE i \in Indices : base.keyword_list[i].key_text = file.entries[p].key_text]

\* a retrieval that resolved a keyword and fetched its record
Fetched == result.op \in Retrievals /\ result.item.some /\ result.raw.val.ok

C4_EndsFollowSortedOrder ==
    status = "open" =>
        /\ \A i \in Indices :
               i < Len(base.keyword_list) =>
                   base.keyword_list[i].record_end_offset =
                       base.keyword_list[i + 1].record_start_offset
        /\ base.keyword_list # << >> =>
               base.keyword_list[Len(base.keyword_list)].record_end_offset = 0

\* C4 amended: the end offset of every entry but the one read last from the
\* key blocks is the start offset of the entry read right after it, and the
\* entry read last keeps record_end_offset = 0, wherever the sort puts them
\* (next to each other in the sorted list only if the sort kept them so).
C4_EndsFollowReadOrder ==
    status = "open" =>
        \A p \in 1..Len(file.entries) :
            IF p < Len(file.entries)
            THEN entry_read_at(p).record_end_offset = entry_read_at(p + 1).record_start_offset
            ELSE entry_read_at(p).record_end_offset = 0

\* an open handle whose sort moved the entry read last away from the end
C4_Witness ==
    /\ status = "open"
    /\ Len(base.keyword_list) = 3
    /\ base.keyword_list[3].record_end_offset # 0
    /\ entry_read_at(3) # base.keyword_list[3]
    /\ entry_read_at(3).record_end_offset = 0

\* the decompressed buffer of the record block selected for an entry
selected_block(it) ==
    LET ri == base.record_info_list[find_record_block_index(base, it.record_start_offset) + 1]
    IN  [accum |-> ri.unpack_accumulate_offset,
         buffer |-> file.sections[<<base.record_block_start_offset + ri.pack_accumulate_offset,
                                    ri.pack_size>>].plain]

C6_FailedFetchIsReported ==
    (/\ result.op \in {"lookup", "fetch", "locate", "locate_raw"}
     /\ result.item.some
     /\ ~result.raw.val.ok) => result.val # None

\* the state of a record block as stored in the file
Damaged == {"lzo_bad", "zlib_bad", "badtype", "cut"}

\* the stored state of the record block that holds the record of an entry
block_status(it) == file.rb_status[find_record_block_index(base, it.record_start_offset) + 1]

C8_EncryptedRecordsNeedPasscode ==
    (/\ status # "closed"
     /\ "Encrypted" \in DOMAIN file.attrs
     /\ file.attrs["Encrypted"] \in {YES, <<49>>}) =>
        /\ status = "failed"
        /\ open_err = "EncryptedFileRequiresPasscode"
        /\ base = new_base(file.ext)

\* the constructor refused a version 2.0 file with Encrypted="1"
C8_Witness ==
    /\ status = "failed"
    /\ open_err = "EncryptedFileRequiresPasscode"
    /\ "Encrypted" \in DOMAIN file.attrs
    /\ file.attrs["Encrypted"] = <<49>>
    /\ "GeneratedByEngineVersion" \in DOMAIN file.attrs
    /\ file.attrs["GeneratedByEngineVersion"] = <<50, 46, 48>>

\* C9: whatever queries ran before it, a retrieval returns for its keyword
\* what a handle opened on the same file and not yet queried returns for
\* it: the outcome is a function of the keyword and the file, not of the
\* cursor earlier reads left.
C9_FetchIndependentOfHistory ==
    (result.op \in Retrievals /\ result.item.some) =>
        result.raw.val =
            lookup_record_by_keyword(file, read_dict(file, new_base(file.ext)).val,
                                     result.item.val).res

\* a record fetched with the cursor left past its block by an earlier fetch
C9_Witness ==
    /\ Fetched
    /\ result.op \in {"lookup", "locate_raw"}
    /\ result.raw.val.val # << >>
    /\ base.reads[1][1] > base.reads[1][2] + base.reads[1][3]

\* the handle without its cursor and the log of its reads
tables(b) == [b EXCEPT !.cursor = 0, !.reads = << >>]

\* C10: no step of an open handle changes the header map, the metadata,
\* the key-block or record-block descriptors, the offsets or the keyword
\* list; only the cursor moves, the handle gains no field and the file is
\* not written.
C10_QueriesKeepTables ==
    [][status = "open" =>
           /\ status' = "open"
           /\ file' = file
           /\ DOMAIN base' = DOMAIN base
           /\ tables(base') = tables(base)]_vars

\* a fetch of the entry with end offset 0 that moved the cursor past the
\* first record block
C10_Witness ==
    /\ Fetched
    /\ result.op = "fetch"
    /\ result.item.val.record_end_offset = 0
    /\ result.item.val \in Items
    /\ base.cursor > base.record_block_start_offset

\* the associated-keyword pool of a word: the positions of the entries in
\* the key block of the entry its associative lookup lands on
pool_of(word) ==
    LET block_of(found) ==
            IF found.some
            THEN {i \in Indices : base.keyword_list[i].key_block_idx = found.val.key_block_idx}
            ELSE {}
    IN  block_of(lookup_keyword_by_word(base, word, TRUE))

\* Levenshtein distance between the normalised entry at position i and the
\* normalised word
distance_to(word, i) ==
    levenshtein_distance(strip_key(base.keyword_list[i].key_text, base.meta.ext = "Mdd"),
                         strip_key(word, base.meta.ext = "Mdd"))

\* the positions of sel by ascending distance, ties in keyword-list order
ranked(word, sel) ==
    [k \in 1..Cardinality(sel) |->
        CHOOSE i \in sel :
            Cardinality({j \in sel :
                \/ distance_to(word, j) < distance_to(word, i)
                \/ distance_to(word, j) = distance_to(word, i) /\ j < i}) = k - 1]

\* the positions suggest and fuzzy_search are to return for word within d
suggested(word, d) == ranked(word, {i \in pool_of(word) : distance_to(word, i) <= d})

\* C11: suggest(word, d) with d <= 5 returns the key texts, and
\* fuzzy_search(word, n, d) the first n scored entries, of the pool entries
\* within distance d of the word, by ascending distance, entries of equal
\* distance in keyword-list order.
C11_FuzzyResults ==
    /\ (result.op = "suggest" /\ result.arg[2] <= 5) =>
           LET want == suggested(result.arg[1], result.arg[2])
           IN  result.val =
                   [k \in DOMAIN want |-> base.keyword_list[want[k]].key_text]
    /\ result.op = "fuzzy_search" =>
           LET want == suggested(result.arg[1], result.arg[3])
           IN  result.val =
                   [k \in 1..Min(result.arg[2], Len(want)) |->
                       [item |-> base.keyword_list[want[k]],
                        edit_distance |-> distance_to(result.arg[1], want[k])]]

\* a fuzzy_search cut to one result whose best candidate is not the first
\* of its pool in keyword-list order
C11_Witness ==
    /\ result.op = "fuzzy_search"
    /\ Len(result.val) = 1
    /\ Len(suggested(result.arg[1], result.arg[3])) > 1
    /\ \E i \in pool_of(result.arg[1]) :
           /\ base.keyword_list[i] # result.val[1].item
           /\ i < suggested(result.arg[1], result.arg[3])[1]
           /\ distance_to(result.arg[1], i) <= result.arg[3]

\* C12 as stated: a fuzzy suggestion asked with max_distance > 5 returns
\* the empty result, through suggest and through fuzzy_search.
C12_FarDistanceRefused ==
    (\/ result.op = "suggest" /\ result.arg[2] > 5
     \/ result.op = "fuzzy_search" /\ result.arg[3] > 5) => result.val = << >>

\* the key texts of the open handle's keyword list
KeyTextsOpen == {base.keyword_list[i].key_text : i \in Indices}

\* C13 as stated: for a keyword k, every element of suggest(k.key_text, 0)
\* is k.key_text itself.
C13_ExactSuggestIsTheKey ==
    (result.op = "suggest" /\ result.arg[2] = 0 /\ result.arg[1] \in KeyTextsOpen) =>
        \A n \in DOMAIN result.val : result.val[n] = result.arg[1]

\* C13 amended: for a keyword k, every element of suggest(k.key_text, 0) is
\* a keyword whose normalised form strip_key equals that of k.key_text; it
\* need not be k.key_text, since several keywords can share one normalised
\* form.
C13_ExactSuggestSharesNormalForm ==
    (result.op = "suggest" /\ result.arg[2] = 0 /\ result.arg[1] \in KeyTextsOpen) =>
        \A n \in DOMAIN result.val :
            /\ result.val[n] \in KeyTextsOpen
            /\ strip_key(result.val[n], base.meta.ext = "Mdd") =
                   strip_key(result.arg[1], base.meta.ext = "Mdd")

\* suggest(k, 0) for a keyword k returned k and another keyword of its key
\* block, of a dictionary that holds a third keyword
C13_Witness ==
    /\ result.op = "suggest"
    /\ result.arg[2] = 0
    /\ result.arg[1] \in KeyTextsOpen
    /\ Len(result.val) = 2
    /\ \E n \in DOMAIN result.val : result.val[n] = result.arg[1]
    /\ \E n \in DOMAIN result.val : result.val[n] # result.arg[1]
    /\ Len(base.keyword_list) > 2

\* the entries of the keyword list at the indices sel, in keyword-list order
in_list_order(sel) ==
    [k \in 1..Cardinality(sel) |->
        base.keyword_list[CHOOSE i \in sel : Cardinality({j \in sel : j < i}) = k - 1]]

\* C14: associate(word) on a non-empty dictionary returns exactly the
\* keyword-list entries whose key_block_idx is that of the entry found by
\* the associative lookup of word, in keyword-list order; the result is not
\* empty and its entries share one key_block_idx. On an empty dictionary it
\* returns the empty sequence.
C14_AssociateIsTheKeyBlock ==
    result.op = "associate" =>
        IF base.keyword_list = << >>
        THEN result.val = << >>
        ELSE /\ result.val # << >>
             /\ \A m, n \in DOMAIN result.val :
                    result.val[m].key_block_idx = result.val[n].key_block_idx
             /\ result.val = in_list_order(pool_of(result.arg))

\* associate returned some but not all entries of a dictionary whose key
\* blocks interleave in the sorted list
C14_Witness ==
    /\ result.op = "associate"
    /\ Len(base.keyword_list) = 3
    /\ Len(result.val) = 2
    /\ result.val[1] = base.keyword_list[1]
    /\ result.val[2] = base.keyword_list[3]

\* the indices of the keywords whose lowercased text starts with the
\* lowercased p
prefixed(p) ==
    {i \in Indices :
        /\ Len(p) <= Len(base.keyword_list[i].key_text)
        /\ SubSeq(to_lowercase(base.keyword_list[i].key_text), 1, Len(p)) = to_lowercase(p)}

\* C15: prefix_keys(p) returns exactly the key_text of the keyword-list
\* entries whose lowercased key_text starts with the lowercased p, each once,
\* in keyword-list order; punctuation is not stripped from either side.
C15_PrefixKeysIsPlainLowercaseMatch ==
    result.op = "prefix_keys" =>
        LET want == in_list_order(prefixed(result.arg))
        IN  result.val = [k \in DOMAIN want |-> want[k].key_text]

\* prefix_keys("a.") returned a key and left out a keyword whose normalised
\* form starts with the normalised prefix
C15_Witness ==
    /\ result.op = "prefix_keys"
    /\ result.arg = <<97, 46>>
    /\ result.val # << >>
    /\ \E i \in Indices :
           /\ i \notin prefixed(result.arg)
           /\ starts_with(strip_key(base.keyword_list[i].key_text, base.meta.ext = "Mdd"),
                          strip_key(result.arg, base.meta.ext = "Mdd"))

\* C16 as stated: for every opened handle keyword_count() equals the sum of
\* key_block_entries_num over the key-block descriptors and equals
\* record_header.entries_num.
C16_CountsAgree ==
    result.op = "keyword_count" =>
        /\ result.val = sum_seq([i \in DOMAIN base.key_info_list |->
                                    base.key_info_list[i].key_block_entries_num])
        /\ result.val = base.record_header.entries_num

\* the value of a header attribute of the file, empty when it is missing
attribute(name) == IF name \in DOMAIN file.attrs THEN file.attrs[name] ELSE << >>

\* the encoding that goes with an encoding name: utf16 / utf-16, gbk /
\* gb2312, big5, anything else
encoding_named(v) ==
    IF v \in {<<117, 116, 102, 49, 54>>, <<117, 116, 102, 45, 49, 54>>} THEN "Utf16Le"
    ELSE IF v \in {<<103, 98, 107>>, <<103, 98, 50, 51, 49, 50>>} THEN "Gb18030"
    ELSE IF v = <<98, 105, 103, 53>> THEN "Big5"
    ELSE "Utf8"

\* C17 as stated: the handle's encoding follows the Encoding attribute:
\* missing or empty -> utf-8, utf16 or utf-16 -> utf-16le, gbk or gb2312 ->
\* gb18030, big5 -> big5, any other value -> utf-8; an mdd handle has
\* utf-16le whatever the attribute says.
C17_EncodingFromAttribute ==
    status = "open" =>
        base.meta.encoding =
            IF file.ext = "Mdd" THEN "Utf16Le" ELSE encoding_named(attribute("Encoding"))

\* C17 amended: the names are matched against the lowercased Encoding
\* attribute, so "UTF-16", "GBK" and "Big5" select utf-16le, gb18030 and big5
\* as their lowercase spellings do; missing, empty and any other value give
\* utf-8, and an mdd handle has utf-16le whatever the attribute says.
C17_EncodingFromLowercasedAttribute ==
    status = "open" =>
        base.meta.encoding =
            IF file.ext = "Mdd" THEN "Utf16Le"
            ELSE encoding_named(to_lowercase(attribute("Encoding")))

\* an mdx file with Encoding="GBK" was opened with encoding gb18030
C17_Witness ==
    /\ status = "open"
    /\ file.ext = "Mdx"
    /\ attribute("Encoding") = <<71, 66, 75>>
    /\ base.meta.encoding = "Gb18030"

\* the encryption kind that goes with a value of the Encrypted attribute
encryption_named(v) ==
    IF v = << >> \/ v = NO THEN "None"
    ELSE IF v = YES THEN "RecordBlock"
    ELSE IF all_digits(v) /\ digits_value(v, 0) = 1 THEN "RecordBlock"
    ELSE IF all_digits(v) /\ digits_value(v, 0) = 2 THEN "KeyInfoBlock"
    ELSE "None"

\* C18: the encryption kind follows the Encrypted attribute: missing, "" or
\* "No" -> none, "Yes" -> record-block, a numeric string n -> EncryptType(n)
\* (0 none, 1 record-block, 2 key-info-block), any other or out-of-range
\* value -> none. A record-block file is refused for want of a passcode; any
\* other file opens with the kind in its metadata.
C18_EncryptionFromAttribute ==
    status # "closed" =>
        IF encryption_named(attribute("Encrypted")) = "RecordBlock"
        THEN status = "failed" /\ open_err = "EncryptedFileRequiresPasscode"
        ELSE /\ status = "open"
             /\ base.meta.encrypt = encryption_named(attribute("Encrypted"))

\* a file with Encrypted="02" was opened as key-info encrypted
C18_Witness ==
    /\ status = "open"
    /\ attribute("Encrypted") = <<48, 50>>
    /\ base.meta.encrypt = "KeyInfoBlock"

\* the record blocks (1-based) of the open handle
Blocks == DOMAIN base.record_info_list

\* the end of the decompressed extent of the last record block
table_end ==
    base.record_info_list[Len(base.record_info_list)].unpack_accumulate_offset
        + base.record_info_list[Len(base.record_info_list)].unpack_size

\* the record blocks whose decompressed extent contains the offset
holding(offset) ==
    {j \in Blocks :
        /\ base.record_info_list[j].unpack_accumulate_offset <= offset
        /\ offset < base.record_info_list[j].unpack_accumulate_offset
                        + base.record_info_list[j].unpack_size}

\* C19: on a non-empty record-block table find_record_block_index returns,
\* for any offset, the largest index whose unpack_accumulate_offset is at
\* most the offset; a block whose decompressed extent contains the offset is
\* the one returned, and no other block's extent contains it.
C19_BlockOfOffset ==
    (status = "open" /\ base.record_info_list # << >>) =>
        \A offset \in 0..table_end + 1 :
            LET rightmost(i) ==
                    /\ i \in Blocks
                    /\ base.record_info_list[i].unpack_accumulate_offset <= offset
                    /\ \A j \in Blocks :
                           base.record_info_list[j].unpack_accumulate_offset <= offset => j <= i
                    /\ holding(offset) \subseteq {i}
            IN  rightmost(find_record_block_index(base, offset) + 1)

\* a record was fetched from the later of two blocks that start at its
\* offset, the earlier one being empty, and its offset lies in that block
C19_Witness ==
    /\ Fetched
    /\ holding(result.item.val.record_start_offset) # {}
    /\ \E j \in Blocks :
           /\ j < find_record_block_index(base, result.item.val.record_start_offset) + 1
           /\ base.record_info_list[j].unpack_accumulate_offset =
                  result.item.val.record_start_offset
    /\ result.raw.val.val # << >>

\* the keyword list of the open handle is sorted under compare_keys
SortedList ==
    \A i, j \in Indices :
        i < j => compare_keys(base, base.keyword_list[j].key_text,
                              base.keyword_list[i].key_text) # "Less"

\* the entries (1-based) that compare Equal to word
equal_to(word) ==
    {i \in Indices : compare_keys(base, base.keyword_list[i].key_text, word) = "Equal"}

\* the insertion point of word: the number of entries that compare Less
insertion_point(word) ==
    Cardinality({i \in Indices :
        compare_keys(base, base.keyword_list[i].key_text, word) = "Less"})

\* the entries (1-based) the associative lookup of word may land on: one
\* that compares Equal if there is any, else the one at the insertion point
\* (0-based p) or the one before it (0-based p - 1)
nearest(word) ==
    IF equal_to(word) # {} THEN equal_to(word)
    ELSE {insertion_point(word), insertion_point(word) + 1} \cap Indices

\* C20: on a non-empty keyword list sorted under compare_keys the
\* associative lookup of a word ends with an entry, and the entry is the
\* nearest by sort order: one that compares Equal to the word if there is
\* any, else the entry at index p or p - 1, p being the number of entries
\* that compare Less than the word. associate(word) returns the key block of
\* such an entry.
C20_AssociativeLookupIsNearest ==
    (status = "open" /\ base.keyword_list # << >> /\ SortedList) =>
        /\ \A word \in ProbeWords :
               LET lands(found) ==
                       /\ found.some
                       /\ \E i \in nearest(word) : base.keyword_list[i] = found.val
               IN  lands(lookup_keyword_by_word(base, word, TRUE))
        /\ result.op = "associate" =>
               \E i \in nearest(result.arg) :
                   \A n \in DOMAIN result.val :
                       result.val[n].key_block_idx = base.keyword_list[i].key_block_idx

\* associate of a word that no entry equals returned the key block of the
\* entry before the insertion point, which is not the last entry's
C20_Witness ==
    /\ result.op = "associate"
    /\ SortedList
    /\ equal_to(result.arg) = {}
    /\ insertion_point(result.arg) \in Indices
    /\ result.val # << >>
    /\ result.val[1].key_block_idx # base.keyword_list[Len(base.keyword_list)].key_block_idx

\* the record start offset written for the entry at position p of the file
start_written(p) == sum_seq([q \in 1..p - 1 |-> file.entries[q].rec_len])

\* the keyword read at position p of the file, as read_key_blocks leaves it:
\* its end is the start of the keyword read next, 0 for the one read last
as_read(p) ==
    [key_text |-> file.entries[p].key_text,
     record_start_offset |-> start_written(p),
     record_end_offset |-> IF p < Len(file.entries) THEN start_written(p + 1) ELSE 0,
     key_block_idx |->
         Cardinality({b \in DOMAIN file.kb_counts : accum(file.kb_counts, b) < p}) - 1]

\* the sorted keyword list holds the keywords as read, each once, unchanged
SortPermutes ==
    /\ Len(base.keyword_list) = Len(file.entries)
    /\ \A p \in 1..Len(file.entries) : entry_read_at(p) = as_read(p)

\* C28 as stated: the end offsets are assigned in file order before the
\* sort and the sort only permutes the entries; exactly the keyword read
\* last has record_end_offset = 0.
C28_OnlyLastReadEndsAtZero ==
    status = "open" =>
        /\ SortPermutes
        /\ \A i \in Indices :
               base.keyword_list[i].record_end_offset = 0 <=>
                   file_pos(base.keyword_list[i].key_text) = Len(file.entries)

\* C28 amended: the sorted list is a permutation of the keywords as read,
\* no field changed: every keyword but the one read last ends where the
\* keyword read after it starts, and the one read last ends at 0. A keyword
\* read earlier also ends at 0 when the keyword read after it starts at
\* offset 0, and in no other case.
C28_EndsAssignedBeforeSort ==
    status = "open" =>
        /\ SortPermutes
        /\ \A i \in Indices :
               base.keyword_list[i].record_end_offset = 0 <=>
                   \/ file_pos(base.keyword_list[i].key_text) = Len(file.entries)
                   \/ start_written(file_pos(base.keyword_list[i].key_text) + 1) = 0

\* an open handle whose sort moved the entries, where the keyword read first
\* has an empty record and ends at 0 like the keyword read last
C28_Witness ==
    /\ status = "open"
    /\ Len(base.keyword_list) = 3
    /\ entry_read_at(1) # base.keyword_list[1]
    /\ entry_read_at(1).record_end_offset = 0
    /\ entry_read_at(2).record_end_offset # 0
    /\ entry_read_at(3).record_end_offset = 0

\* the entries (1-based) whose normalised key is that of the key text
same_normal_form(key_text) ==
    {i \in Indices : strip(base, base.keyword_list[i].key_text) = strip(base, key_text)}

NoDictionary ==
    /\ file = << >>
    /\ status = "unused"
    /\ open_err = ""
    /\ base = << >>
    /\ result = NoResult

RECURSIVE pow2(_)
pow2(n) == IF n = 0 THEN 1 ELSE 2 * pow2(n - 1)

\* `v as uW` for a value v below 2^31: the low w bits of v
u_bits(v, w) == [i \in 1..w |-> IF w - i > 30 THEN 0 ELSE (v \div pow2(w - i)) % 2]

\* `x as uW` for a narrower x
widen(x, w) == [i \in 1..w |-> IF i <= w - Len(x) THEN 0 ELSE x[i - (w - Len(x))]]

\* x << n
bit_shl(x, n) == [i \in 1..Len(x) |-> IF i + n <= Len(x) THEN x[i + n] ELSE 0]

\* x | y
bit_or(x, y) == [i \in 1..Len(x) |-> IF x[i] = 1 \/ y[i] = 1 THEN 1 ELSE 0]

bit_or_all(xs) == LET RECURSIVE go(_, _)
                      go(i, acc) == IF i > Len(xs) THEN acc ELSE go(i + 1, bit_or(acc, xs[i]))
                  IN go(2, xs[1])

\* read_u8
read_u8(bytes) == u_bits(bytes[1], 8)

\* read_u16_be
read_u16_be(bytes) ==
    bit_or(bit_shl(widen(u_bits(bytes[1], 8), 16), 8), widen(u_bits(bytes[2], 8), 16))

\* read_u32_be
read_u32_be(bytes) ==
    bit_or_all(<<bit_shl(widen(u_bits(bytes[1], 8), 32), 24),
                 bit_shl(widen(u_bits(bytes[2], 8), 32), 16),
                 bit_shl(widen(u_bits(bytes[3], 8), 32), 8),
                 widen(u_bits(bytes[4], 8), 32)>>)

\* read_u64_be that assembles the value in 32 bits before widening it
read_u64_be_in_32_bits(bytes) ==
    widen(bit_or_all(<<bit_shl(widen(u_bits(bytes[1], 8), 32), 56),
                       bit_shl(widen(u_bits(bytes[2], 8), 32), 48),
                       bit_shl(widen(u_bits(bytes[3], 8), 32), 40),
                       bit_shl(widen(u_bits(bytes[4], 8), 32), 32),
                       bit_shl(widen(u_bits(bytes[5], 8), 32), 24),
                       bit_shl(widen(u_bits(bytes[6], 8), 32), 16),
                       bit_shl(widen(u_bits(bytes[7], 8), 32), 8),
                       widen(u_bits(bytes[8], 8), 32)>>), 64)

\* read_u64_be
read_u64_be(bytes) ==
    bit_or_all(<<bit_shl(widen(u_bits(bytes[1], 8), 64), 56),
                 bit_shl(widen(u_bits(bytes[2], 8), 64), 48),
                 bit_shl(widen(u_bits(bytes[3], 8), 64), 40),
                 bit_shl(widen(u_bits(bytes[4], 8), 64), 32),
                 bit_shl(widen(u_bits(bytes[5], 8), 64), 24),
                 bit_shl(widen(u_bits(bytes[6], 8), 64), 16),
                 bit_shl(widen(u_bits(bytes[7], 8), 64), 8),
                 widen(u_bits(bytes[8], 8), 64)>>)

\* bytes_to_number: a u64
bytes_to_number(data) ==
    CASE Len(data) = 1 -> widen(read_u8(data), 64)
      [] Len(data) = 2 -> widen(read_u16_be(data), 64)
      [] Len(data) = 4 -> widen(read_u32_be(data), 64)
      [] Len(data) = 8 -> read_u64_be(data)
      [] OTHER -> u_bits(0, 64)

\* the byte values the number arguments are made of
NumberBytes == {0, 1, 255}

\* the slices of the tests test_read_u32_be, test_read_u64_be and
\* test_read_u64_be_max_safe
NumberVectors ==
    {<<0, 0, 4, 166>>, <<0, 0, 4, 166, 1, 2, 3, 4>>,
     <<0, 31, 255, 255, 255, 255, 255, 255>>}

NumberArguments ==
    NumberVectors \cup UNION {[1..n -> NumberBytes] : n \in {0, 1, 2, 3, 4, 8}}

InitNumbers ==
    /\ NoDictionary
    /\ lzo = NoLzo
    /\ \E data \in NumberArguments :
           probe = [fn |-> "bytes_to_number", arg |-> data, done |-> FALSE, val |-> << >>]

\* a call of bytes_to_number
BytesToNumber ==
    /\ probe.fn = "bytes_to_number"
    /\ ~probe.done
    /\ probe' = [probe EXCEPT !.done = TRUE, !.val = bytes_to_number(probe.arg)]
    /\ UNCHANGED <<file, status, open_err, base, result, lzo>>

SpecNumbers == InitNumbers /\ [][BytesToNumber]_vars

\* a natural number in decimal, the most significant digit first
decimal_times_plus(digits, factor, addend) ==
    LET RECURSIVE go(_, _, _)
        go(i, carry, acc) ==
            IF i = 0
            THEN IF carry = 0 THEN acc ELSE go(0, carry \div 10, <<carry % 10>> \o acc)
            ELSE go(i - 1, (digits[i] * factor + carry) \div 10,
                    <<(digits[i] * factor + carry) % 10>> \o acc)
    IN go(Len(digits), addend, << >>)

\* the decimal of the number of which `places` are the digits in a base
in_decimal(places, radix) ==
    LET RECURSIVE go(_, _)
        go(i, acc) == IF i > Len(places) THEN acc
                      ELSE go(i + 1, decimal_times_plus(acc, radix, places[i]))
    IN go(1, << >>)

\* the value of at most 30 bits
bits_value(x) ==
    LET RECURSIVE go(_, _)
        go(i, acc) == IF i > Len(x) THEN acc ELSE go(i + 1, 2 * acc + x[i])
    IN go(1, 0)

\* the decimal of an unsigned integer of 16, 32 or 64 bits
decimal_of(x) ==
    in_decimal([k \in 1..(Len(x) \div 16) |->
                   bits_value(SubSeq(x, 16 * (k - 1) + 1, 16 * k))], 65536)

\* C27: for a slice of 1, 2, 4 or 8 bytes bytes_to_number returns the
\* big-endian unsigned value of the slice, the sum of b[i] * 256^(n-1-i),
\* all 64 bits of an 8-byte slice included; 00 00 04 a6 gives 1190,
\* 00 00 04 a6 01 02 03 04 gives 5111027991300 and 00 1f ff ff ff ff ff ff
\* gives 9007199254740991.
C27_BigEndianValue ==
    (probe.fn = "bytes_to_number" /\ probe.done) =>
        /\ Len(probe.arg) \in {1, 2, 4, 8} =>
               /\ Len(probe.val) = 64
               /\ decimal_of(probe.val) = in_decimal(probe.arg, 256)
        /\ probe.arg = <<0, 0, 4, 166>> =>
               decimal_of(probe.val) = <<1, 1, 9, 0>>
        /\ probe.arg = <<0, 0, 4, 166, 1, 2, 3, 4>> =>
               decimal_of(probe.val) = <<5, 1, 1, 1, 0, 2, 7, 9, 9, 1, 3, 0, 0>>
        /\ probe.arg = <<0, 31, 255, 255, 255, 255, 255, 255>> =>
               decimal_of(probe.val) = <<9, 0, 0, 7, 1, 9, 9, 2, 5, 4, 7, 4, 0, 9, 9, 1>>

\* an 8-byte slice whose value needs the top bit of the 64 was converted
C27_Witness ==
    /\ probe.fn = "bytes_to_number"
    /\ probe.done
    /\ Len(probe.arg) = 8
    /\ probe.arg[1] = 255
    /\ probe.val[1] = 1
    /\ decimal_of(probe.val) # << >>

\* the longest of the texts of which every pair is measured
MaxTextLen == 3

\* the characters of those texts
TextLetters == {97, 98}

\* "hello", "helo", "world", "abc"
hello == <<104, 101, 108, 108, 111>>
helo == <<104, 101, 108, 111>>
world == <<119, 111, 114, 108, 100>>
abc == <<97, 98, 99>>

\* the pairs of test_levenshtein_distance
DistanceVectors ==
    {<<hello, hello>>, <<hello, helo>>, <<hello, world>>, <<world, hello>>,
     <<helo, hello>>, << << >>, abc>>, <<abc, << >> >>}

ShortTexts == UNION {[1..n -> TextLetters] : n \in 0..MaxTextLen}

InitDistance ==
    /\ NoDictionary
    /\ lzo = NoLzo
    /\ \E pair \in DistanceVectors \cup (ShortTexts \X ShortTexts) :
           probe = [fn |-> "levenshtein_distance", arg |-> pair, done |-> FALSE,
                    val |-> << >>]

\* a call of levenshtein_distance
LevenshteinDistance ==
    /\ probe.fn = "levenshtein_distance"
    /\ ~probe.done
    /\ probe' = [probe EXCEPT !.done = TRUE,
                              !.val = levenshtein_distance(probe.arg[1], probe.arg[2])]
    /\ UNCHANGED <<file, status, open_err, base, result, lzo>>

SpecDistance == InitDistance /\ [][LevenshteinDistance]_vars

\* the texts one insertion, deletion or substitution of a character of
\* `letters` away from text x, none longer than `longest`
one_edit(x, letters, longest) ==
    {SubSeq(x, 1, i - 1) \o SubSeq(x, i + 1, Len(x)) : i \in 1..Len(x)}
    \cup {[x EXCEPT ![i] = l] : i \in 1..Len(x), l \in letters}
    \cup IF Len(x) >= longest THEN {}
         ELSE {SubSeq(x, 1, i) \o <<l>> \o SubSeq(x, i + 1, Len(x)) :
                   i \in 0..Len(x), l \in letters}

\* the least number of edits that turn text x into text y: rounds of
\* one_edit until y is among the texts reached
fewest_edits(x, y) ==
    LET letters == {y[i] : i \in 1..Len(y)}
        longest == Max(Len(x), Len(y))
        RECURSIVE go(_, _)
        go(reached, k) ==
            IF y \in reached THEN k
            ELSE go(reached \cup UNION {one_edit(z, letters, longest) : z \in reached}, k + 1)
    IN go({x}, 0)

\* C26: levenshtein_distance(a, b) is the least number of insertions,
\* deletions and substitutions of one character that turn a into b; it is 0
\* exactly when a = b, it is symmetric, the distance from the empty text to
\* b is the length of b, (hello, helo) gives 1 and (hello, world) gives 4.
C26_DistanceIsFewestEdits ==
    (probe.fn = "levenshtein_distance" /\ probe.done) =>
        LET measured(a, b) ==
                /\ probe.val = fewest_edits(a, b)
                /\ probe.val = 0 <=> a = b
                /\ probe.val = levenshtein_distance(b, a)
                /\ a = << >> => probe.val = Len(b)
                /\ (a = hello /\ b = helo) => probe.val = 1
                /\ (a = hello /\ b = world) => probe.val = 4
        IN measured(probe.arg[1], probe.arg[2])

\* two texts with no character in common at any place were measured, so
\* that every character had to be substituted
C26_Witness ==
    /\ probe.fn = "levenshtein_distance"
    /\ probe.done
    /\ Len(probe.arg[1]) = MaxTextLen
    /\ Len(probe.arg[2]) = MaxTextLen
    /\ \A i \in 1..MaxTextLen : probe.arg[1][i] # probe.arg[2][i]
    /\ probe.val = MaxTextLen

\* ---------------------------------------------------------------------
\* ripemd128.rs. A u32 is the pair <<high, low>> of its 16-bit halves.
\* ---------------------------------------------------------------------

\* one bit of a ^ b, a & b, a | b
bit_of(op, a, b) ==
    CASE op = "xor" -> (a + b) % 2
      [] op = "and" -> a * b
      [] op = "or" -> IF a + b > 0 THEN 1 ELSE 0

\* a ^ b, a & b, a | b on integers of 4 bits
nibble(op, a, b) ==
    bit_of(op, a % 2, b % 2) + 2 * bit_of(op, (a \div 2) % 2, (b \div 2) % 2)
        + 4 * bit_of(op, (a \div 4) % 2, (b \div 4) % 2) + 8 * bit_of(op, a \div 8, b \div 8)

\* a ^ b, a & b, a | b on integers of 8 and of 16 bits
bitwise(op, a, b, n) ==
    IF n = 8 THEN nibble(op, a % 16, b % 16) + 16 * nibble(op, a \div 16, b \div 16)
    ELSE nibble(op, a % 16, b % 16) + 16 * nibble(op, (a \div 16) % 16, (b \div 16) % 16)
             + 256 * nibble(op, (a \div 256) % 16, (b \div 256) % 16)
             + 4096 * nibble(op, a \div 4096, b \div 4096)

\* x ^ y, x & y, x | y, !x on u32
u32_xor(x, y) == <<bitwise("xor", x[1], y[1], 16), bitwise("xor", x[2], y[2], 16)>>
u32_and(x, y) == <<bitwise("and", x[1], y[1], 16), bitwise("and", x[2], y[2], 16)>>
u32_or(x, y) == <<bitwise("or", x[1], y[1], 16), bitwise("or", x[2], y[2], 16)>>
u32_not(x) == <<65535 - x[1], 65535 - x[2]>>

\* x << n and x >> n on u32, 0 < n < 32
u32_shl(x, n) ==
    IF n >= 16 THEN <<(x[2] * pow2(n - 16)) % 65536, 0>>
    ELSE <<((x[1] * pow2(n)) % 65536) + (x[2] \div pow2(16 - n)), (x[2] * pow2(n)) % 65536>>
u32_shr(x, n) ==
    IF n >= 16 THEN <<0, x[1] \div pow2(n - 16)>>
    ELSE <<x[1] \div pow2(n), ((x[1] * pow2(16 - n)) % 65536) + (x[2] \div pow2(n))>>

\* wrapping_add that carries nothing from the low half into the high one
wrapping_add_without_carry(x, y) == <<(x[1] + y[1]) % 65536, (x[2] + y[2]) % 65536>>

\* u32::wrapping_add
wrapping_add(x, y) ==
    <<(x[1] + y[1] + (x[2] + y[2]) \div 65536) % 65536, (x[2] + y[2]) % 65536>>

\* u32::from_le_bytes and u32::to_le_bytes
from_le_bytes(word) == <<word[3] + 256 * word[4], word[1] + 256 * word[2]>>
to_le_bytes(x) == <<x[2] % 256, x[2] \div 256, x[1] % 256, x[1] \div 256>>

\* u64::to_le_bytes of a length in bits
bit_len_to_le_bytes(bit_len) ==
    LET RECURSIVE go(_, _)
        go(v, n) == IF n = 0 THEN << >> ELSE <<v % 256>> \o go(v \div 256, n - 1)
    IN go(bit_len, 8)

\* pad_message: the 0x80, zeros until the length is 56 modulo 64, the length
zeros_until_56(padded) ==
    padded \o [n \in 1..((64 + 56 - (Len(padded) % 64)) % 64) |-> 0]

pad_message(data) == zeros_until_56(data \o <<128>>) \o bit_len_to_le_bytes(Len(data) * 8)

\* rotl
rotl(x, n) == u32_or(u32_shl(x, n), u32_shr(x, 32 - n))

\* the Boolean functions f, g, h and i
bool_f(x, y, z) == u32_xor(u32_xor(x, y), z)
bool_g(x, y, z) == u32_or(u32_and(x, y), u32_and(u32_not(x), z))
bool_h(x, y, z) == u32_xor(u32_or(x, u32_not(y)), z)
bool_i(x, y, z) == u32_or(u32_and(x, z), u32_and(y, u32_not(z)))

\* the constants of compress; the message schedules count words from 1
hash_init == <<<<26437, 8961>>, <<61389, 43913>>, <<39098, 56574>>, <<4146, 21622>>>>
K == <<<<0, 0>>, <<23170, 31129>>, <<28377, 60321>>, <<36635, 48348>>>>
KK == <<<<20642, 35814>>, <<23629, 53540>>, <<28016, 16115>>, <<0, 0>>>>
R == <<<<1, 2, 3, 4, 5, 6, 7, 8, 9, 10, 11, 12, 13, 14, 15, 16>>,
      <<8, 5, 14, 2, 11, 7, 16, 4, 13, 1, 10, 6, 3, 15, 12, 9>>,
      <<4, 11, 15, 5, 10, 16, 9, 2, 3, 8, 1, 7, 14, 12, 6, 13>>,
      <<2, 10, 12, 11, 1, 9, 13, 5, 14, 4, 8, 16, 15, 6, 7, 3>>>>
RR == <<<<6, 15, 8, 1, 10, 3, 12, 5, 14, 7, 16, 9, 2, 11, 4, 13>>,
      <<7, 12, 4, 8, 1, 14, 6, 11, 15, 16, 9, 13, 5, 10, 2, 3>>,
      <<16, 6, 2, 4, 8, 15, 7, 10, 12, 9, 13, 3, 11, 1, 5, 14>>,
      <<9, 7, 5, 2, 4, 12, 16, 1, 6, 13, 3, 14, 10, 8, 11, 15>>>>
S == <<<<11, 14, 15, 12, 5, 8, 7, 9, 11, 13, 14, 15, 6, 7, 9, 8>>,
      <<7, 6, 8, 13, 11, 9, 7, 15, 7, 12, 15, 9, 11, 7, 13, 12>>,
      <<11, 13, 6, 7, 14, 9, 13, 15, 14, 8, 13, 6, 5, 12, 7, 5>>,
      <<11, 12, 14, 15, 14, 15, 9, 8, 9, 14, 5, 6, 8, 6, 5, 12>>>>
SS == <<<<8, 9, 9, 11, 13, 15, 15, 5, 7, 7, 8, 11, 14, 14, 12, 6>>,
      <<9, 13, 15, 7, 12, 8, 9, 11, 7, 7, 12, 7, 6, 15, 13, 11>>,
      <<9, 7, 15, 11, 8, 6, 6, 14, 12, 13, 5, 14, 13, 13, 7, 5>>,
      <<15, 5, 8, 11, 14, 14, 6, 14, 6, 9, 12, 9, 12, 5, 15, 8>>>>

\* the Boolean function of a loop of compress
boolean(which, x, y, z) ==
    CASE which = "f" -> bool_f(x, y, z)
      [] which = "g" -> bool_g(x, y, z)
      [] which = "h" -> bool_h(x, y, z)
      [] which = "i" -> bool_i(x, y, z)

\* the values of type u32
U32 == (0..65535) \X (0..65535)

\* one `for j in 0..16` loop of compress on (a, b, c, d), each of them a u32
round(abcd, x, which, r, s, k) ==
    LET RECURSIVE go(_, _, _, _, _)
        go(j, a, b, c, d) ==
            IF j > 16 \/ b \notin U32 THEN <<a, b, c, d>>
            ELSE go(j + 1, d,
                    rotl(wrapping_add(wrapping_add(wrapping_add(a, boolean(which, b, c, d)),
                                                   x[r[j]]), k), s[j]),
                    b, c)
    IN go(1, abcd[1], abcd[2], abcd[3], abcd[4])

\* compress
compress(hash, x) ==
    LET left == round(round(round(round(hash, x, "f", R[1], S[1], K[1]),
                                  x, "g", R[2], S[2], K[2]),
                            x, "h", R[3], S[3], K[3]),
                      x, "i", R[4], S[4], K[4])
        right == round(round(round(round(hash, x, "i", RR[1], SS[1], KK[1]),
                                   x, "h", RR[2], SS[2], KK[2]),
                             x, "g", RR[3], SS[3], KK[3]),
                       x, "f", RR[4], SS[4], KK[4])
        final(l, r) == <<wrapping_add(wrapping_add(hash[2], l[3]), r[4]),
                         wrapping_add(wrapping_add(hash[3], l[4]), r[1]),
                         wrapping_add(wrapping_add(hash[4], l[1]), r[2]),
                         wrapping_add(wrapping_add(hash[1], l[2]), r[3])>>
    IN final(left, right)

\* ripemd128
ripemd128(data) ==
    LET chunk_words(chunk) == [n \in 1..16 |-> from_le_bytes(SubSeq(chunk, 4 * n - 3, 4 * n))]
        RECURSIVE chunks(_, _)
        chunks(padded, hash) ==
            IF padded = << >> THEN hash
            ELSE chunks(SubSeq(padded, 65, Len(padded)),
                        compress(hash, chunk_words(SubSeq(padded, 1, 64))))
        bytes_of(hash) == to_le_bytes(hash[1]) \o to_le_bytes(hash[2])
                              \o to_le_bytes(hash[3]) \o to_le_bytes(hash[4])
    IN bytes_of(chunks(pad_message(data), hash_init))

\* the messages of the tests of ripemd128.rs: "", "a", "abc",
\* "message digest", the alphabet and the 62 letters and digits
letter_a == <<97>>
message_digest == <<109, 101, 115, 115, 97, 103, 101, 32, 100, 105, 103, 101, 115, 116>>
alphabet == <<97, 98, 99, 100, 101, 102, 103, 104, 105, 106, 107, 108, 109, 110, 111, 112, 113, 114, 115, 116, 117, 118, 119, 120, 121, 122>>
alphanumeric == <<65, 66, 67, 68, 69, 70, 71, 72, 73, 74, 75, 76, 77, 78, 79, 80, 81, 82, 83, 84, 85, 86, 87, 88, 89, 90, 97, 98, 99, 100, 101, 102, 103, 104, 105, 106, 107, 108, 109, 110, 111, 112, 113, 114, 115, 116, 117, 118, 119, 120, 121, 122, 48, 49, 50, 51, 52, 53, 54, 55, 56, 57>>
DigestVectors == {<< >>, letter_a, abc, message_digest, alphabet, alphanumeric}

\* a call of ripemd128
Ripemd128 ==
    /\ probe.fn = "ripemd128"
    /\ ~probe.done
    /\ probe' = [probe EXCEPT !.done = TRUE, !.val = ripemd128(probe.arg)]
    /\ UNCHANGED <<file, status, open_err, base, result, lzo>>

\* u8::rotate_left
rotate_left(byte, n) == ((byte * pow2(n)) % 256) + (byte \div pow2(8 - n))

\* fast_decrypt that rotates no byte
fast_decrypt_without_rotation(data, key) ==
    LET RECURSIVE span(_, _, _)
        span(lo, hi, previous) ==
            IF lo > hi THEN <<<< >>, previous>>
            ELSE IF lo = hi
            THEN <<<<bitwise("xor",
                             bitwise("xor", bitwise("xor", data[lo], previous, 8),
                                     (lo - 1) % 256, 8),
                             key[((lo - 1) % Len(key)) + 1], 8)>>,
                   data[lo]>>
            ELSE LET joined(first, rest) == <<first[1] \o rest[1], rest[2]>>
                     then(first) == joined(first, span((lo + hi) \div 2 + 1, hi, first[2]))
                 IN then(span(lo, (lo + hi) \div 2, previous))
    IN span(1, Len(data), 54)[1]

\* fast_decrypt: span(lo, hi, previous) is the part of the loop that visits
\* the bytes lo..hi, entered with `previous`; it gives the bytes written and
\* the `previous` it leaves
fast_decrypt(data, key) ==
    LET RECURSIVE span(_, _, _)
        span(lo, hi, previous) ==
            IF lo > hi THEN <<<< >>, previous>>
            ELSE IF lo = hi
            THEN <<<<bitwise("xor",
                             bitwise("xor", bitwise("xor", rotate_left(data[lo], 4), previous, 8),
                                     (lo - 1) % 256, 8),
                             key[((lo - 1) % Len(key)) + 1], 8)>>,
                   data[lo]>>
            ELSE LET joined(first, rest) == <<first[1] \o rest[1], rest[2]>>
                     then(first) == joined(first, span((lo + hi) \div 2 + 1, hi, first[2]))
                 IN then(span(lo, (lo + hi) \div 2, previous))
    IN span(1, Len(data), 54)[1]

\* mdx_decrypt
mdx_decrypt(comp_block) ==
    IF Len(comp_block) < 8 THEN comp_block
    ELSE LET key_buffer == SubSeq(comp_block, 5, 8)
                               \o <<bitwise("xor", 0, 149, 8), bitwise("xor", 0, 54, 8),
                                    bitwise("xor", 0, 0, 8), bitwise("xor", 0, 0, 8)>>
         IN SubSeq(comp_block, 1, 8)
                \o fast_decrypt(SubSeq(comp_block, 9, Len(comp_block)), ripemd128(key_buffer))

\* blocks to decrypt: some shorter than 8 bytes, some with up to three bytes
\* after the first 8, one with more than 16 and one with more than 256
ShortBlocks == {SubSeq(<<2, 0, 0, 0, 1, 2, 3>>, 1, n) : n \in 0..7}
Salts == {<<0, 0, 0, 0>>, <<1, 2, 3, 4>>, <<255, 255, 255, 255>>}
Payloads ==
    UNION {[1..n -> {0, 54, 255}] : n \in 0..3}
    \cup {[n \in 1..20 |-> (37 * n) % 256], [n \in 1..260 |-> (91 * n) % 256]}
MdxBlocks == ShortBlocks \cup {<<2, 0, 0, 0>> \o salt \o payload : salt \in Salts, payload \in Payloads}

InitDigest ==
    /\ NoDictionary
    /\ lzo = NoLzo
    /\ \/ \E data \in DigestVectors :
              probe = [fn |-> "ripemd128", arg |-> data, done |-> FALSE, val |-> << >>]
       \/ \E block \in MdxBlocks :
              probe = [fn |-> "mdx_decrypt", arg |-> block, done |-> FALSE, val |-> << >>]

\* a call of mdx_decrypt
MdxDecrypt ==
    /\ probe.fn = "mdx_decrypt"
    /\ ~probe.done
    /\ probe' = [probe EXCEPT !.done = TRUE, !.val = mdx_decrypt(probe.arg)]
    /\ UNCHANGED <<file, status, open_err, base, result, lzo>>

NextDigest == Ripemd128 \/ MdxDecrypt

SpecDigest == InitDigest /\ [][NextDigest]_vars

\* the bit of weight 2^k of a byte
bit_at(byte, k) == (byte \div pow2(k)) % 2

\* C24: mdx_decrypt of a block b of 8 bytes or more has the length of b,
\* keeps the bytes [0..8) and gives at each place i of the rest the byte
\* rotate_left_4(b[8+i]) XOR previous XOR (i mod 256) XOR K[i mod 16], where
\* previous is 0x36 at i = 0 and the byte b[8+i-1] as it was in b otherwise,
\* and K is the RIPEMD-128 of b[4..8] followed by 95 36 00 00; a block
\* shorter than 8 bytes is returned as it is.
C24_DecryptedBytes ==
    (probe.fn = "mdx_decrypt" /\ probe.done) =>
        LET decrypted(b, out, key) ==
                /\ Len(out) = Len(b)
                /\ SubSeq(out, 1, 8) = SubSeq(b, 1, 8)
                /\ Len(key) = 16
                /\ \A n \in 0..(Len(b) - 9) : \A k \in 0..7 :
                       bit_at(out[9 + n], k) =
                           (bit_at(b[9 + n], (k + 4) % 8)
                            + bit_at(IF n = 0 THEN 54 ELSE b[8 + n], k)
                            + bit_at(n % 256, k)
                            + bit_at(key[(n % 16) + 1], k)) % 2
        IN IF Len(probe.arg) < 8 THEN probe.val = probe.arg
           ELSE decrypted(probe.arg, probe.val,
                          ripemd128(SubSeq(probe.arg, 5, 8) \o <<149, 54, 0, 0>>))

\* a block with more than 256 bytes after the first 8 was decrypted, and its
\* place 256 differs from what it held
C24_Witness ==
    /\ probe.fn = "mdx_decrypt"
    /\ probe.done
    /\ Len(probe.arg) > 8 + 256
    /\ Len(probe.val) = Len(probe.arg)
    /\ probe.val[9 + 256] # probe.arg[9 + 256]

\* a digest in hexadecimal
HexDigits == <<"0", "1", "2", "3", "4", "5", "6", "7", "8", "9", "a", "b", "c", "d", "e", "f">>

hex(bytes) ==
    LET RECURSIVE go(_, _)
        go(n, acc) ==
            IF n > Len(bytes) THEN acc
            ELSE go(n + 1, acc \o HexDigits[(bytes[n] \div 16) + 1] \o HexDigits[(bytes[n] % 16) + 1])
    IN go(1, "")

\* C25: ripemd128 is RIPEMD-128, with additions that wrap at 32 bits and the
\* length appended little-endian: the empty message hashes to
\* cdf26213a150dc3ecb610f18f6b38b46, "a" to 86be7afa339d0fc7cfc785e72f578d33,
\* "abc" to c14a12199c66e4ba84636b0f69144c77, "message digest" to
\* 9e327b3d6e523062afc1132d7df9d1b8 and the 62 letters and digits to
\* d1e959eb179c911faea4624c60c5c702.
C25_Digests ==
    (probe.fn = "ripemd128" /\ probe.done) =>
        /\ Len(probe.val) = 16
        /\ probe.arg = << >> => hex(probe.val) = "cdf26213a150dc3ecb610f18f6b38b46"
        /\ probe.arg = letter_a => hex(probe.val) = "86be7afa339d0fc7cfc785e72f578d33"
        /\ probe.arg = abc => hex(probe.val) = "c14a12199c66e4ba84636b0f69144c77"
        /\ probe.arg = message_digest => hex(probe.val) = "9e327b3d6e523062afc1132d7df9d1b8"
        /\ probe.arg = alphanumeric => hex(probe.val) = "d1e959eb179c911faea4624c60c5c702"

\* the message of 62 characters, which takes two chunks, was hashed
C25_Witness ==
    /\ probe.fn = "ripemd128"
    /\ probe.done
    /\ probe.arg = alphanumeric
    /\ Len(pad_message(probe.arg)) = 128
    /\ hex(probe.val) = "d1e959eb179c911faea4624c60c5c702"

\* ---------------------------------------------------------------------
\* lzo.rs, Lzo1xDecompressor. A decompressor z holds input, output, ip and
\* op; the outcome of one of its methods is the decompressor it leaves and
\* err: "" for Ok(()), the message of the DecompressionError it returned,
\* or "panic" when an index was out of bounds.
\* ---------------------------------------------------------------------

went(z) == [z |-> z, err |-> "", len |-> 0]

failed(z, message) == [z |-> z, err |-> message, len |-> 0]

panicked(z) == [z |-> z, err |-> "panic", len |-> 0]

\* copy_literal
copy_literal(z, len) ==
    IF z.ip + len > Len(z.input) \/ z.op + len > Len(z.output)
    THEN failed(z, "Buffer overflow in literal copy")
    ELSE went([z EXCEPT !.output = [n \in 1..Len(z.output) |->
                                       IF n > z.op /\ n <= z.op + len
                                       THEN z.input[z.ip + (n - z.op)]
                                       ELSE z.output[n]],
                        !.op = z.op + len,
                        !.ip = z.ip + len])

\* the loop of match_copy: len bytes copied one after the other from src
\* to dst = src + offset within the output. A byte read at or after dst is
\* one the loop wrote before, so the bytes from src to dst repeat; with
\* offset 0 every byte is copied onto itself.
copy_within(output, src, dst, len) ==
    [n \in 1..Len(output) |->
        IF n > dst /\ n <= dst + len /\ dst > src
        THEN output[src + 1 + ((n - dst - 1) % (dst - src))]
        ELSE output[n]]

\* match_copy that copies whatever the room left in the output
match_copy_unbounded(z, len, offset) ==
    IF offset > z.op
    THEN failed(z, "Invalid match offset")
    ELSE went([z EXCEPT !.output = copy_within(z.output \o [n \in 1..len |-> 0],
                                               z.op - offset, z.op, len),
                        !.op = z.op + len])

\* match_copy
match_copy(z, len, offset) ==
    IF offset > z.op \/ z.op + len > Len(z.output)
    THEN failed(z, "Invalid match offset")
    ELSE went([z EXCEPT !.output = copy_within(z.output, z.op - offset, z.op, len),
                        !.op = z.op + len])

\* match_copy_2
match_copy_2(z, t) ==
    IF z.ip >= Len(z.input) THEN panicked(z)
    ELSE LET trailing(copied, next) ==
                 IF copied.err = "" /\ next > 0 THEN copy_literal(copied.z, next) ELSE copied
         IN trailing(match_copy([z EXCEPT !.ip = z.ip + 1],
                                ((t \div 32) + 1) + 2,
                                ((t % 32) * 8) + (z.input[z.ip + 1] \div 32) + 1),
                     z.input[z.ip + 1] % 32)

\* the `Extended length` block of match_copy_var, match_copy_long and
\* literal_run, `added` being 31, 7 or 15
RECURSIVE extended_length(_, _, _)
extended_length(z, len, added) ==
    IF z.ip < Len(z.input) /\ z.input[z.ip + 1] = 0
    THEN extended_length([z EXCEPT !.ip = z.ip + 1], len + 255, added)
    ELSE IF z.ip >= Len(z.input)
    THEN failed(z, "Unexpected end of input")
    ELSE [z |-> [z EXCEPT !.ip = z.ip + 1], err |-> "",
          len |-> len + added + z.input[z.ip + 1]]

\* match_copy_var
match_copy_var(z, t) ==
    LET offset_and_copy(length) ==
            IF length.err # "" THEN length
            ELSE IF length.z.ip + 1 >= Len(length.z.input)
            THEN failed(length.z, "Unexpected end of input")
            ELSE match_copy([length.z EXCEPT !.ip = length.z.ip + 2], length.len + 2,
                            length.z.input[length.z.ip + 1]
                                + length.z.input[length.z.ip + 2] * 256 + 1)
    IN offset_and_copy(IF t % 32 = 0 THEN extended_length(z, 0, 31)
                       ELSE [z |-> z, err |-> "", len |-> t % 32])

\* match_copy_long
match_copy_long(z, t) ==
    LET offset_and_copy(length) ==
            IF length.err # "" THEN length
            ELSE IF length.z.ip + 1 >= Len(length.z.input)
            THEN failed(length.z, "Unexpected end of input")
            ELSE match_copy([length.z EXCEPT !.ip = length.z.ip + 2], length.len + 2,
                            length.z.input[length.z.ip + 1]
                                + length.z.input[length.z.ip + 2] * 256
                                + (IF t >= 24 THEN 16384 ELSE 0))
    IN offset_and_copy(IF t % 8 = 0 THEN extended_length(z, 0, 7)
                       ELSE [z |-> z, err |-> "", len |-> t % 8])

\* literal_run
literal_run(z, t) ==
    LET copy(length) ==
            IF length.err # "" THEN length ELSE copy_literal(length.z, length.len + 3)
    IN copy(IF t = 0 THEN extended_length(z, 0, 15) ELSE [z |-> z, err |-> "", len |-> t])

\* decompress up to the call of decompress_internal
Lzo1xDecompressor_new(input, output_size) ==
    [input |-> input, output |-> [n \in 1..output_size |-> 0], ip |-> 0, op |-> 0]

\* decompress_internal up to its loop: the outcome and the t the loop is
\* entered with (len), "return" for the early return on an empty input
before_loop(z) ==
    IF z.input = << >> THEN [z |-> z, err |-> "return", len |-> 0]
    ELSE IF z.input[1] > 17
    THEN LET second(run) ==
                 IF run.err # "" THEN run
                 ELSE IF run.z.ip >= Len(run.z.input) THEN panicked(run.z)
                 ELSE IF run.z.input[run.z.ip + 1] < 16
                 THEN failed([run.z EXCEPT !.ip = run.z.ip + 1], "Invalid LZO data")
                 ELSE [z |-> [run.z EXCEPT !.ip = run.z.ip + 1], err |-> "",
                       len |-> run.z.input[run.z.ip + 1]]
         IN second(copy_literal([z EXCEPT !.ip = 1], z.input[1] - 17))
    ELSE [z |-> [z EXCEPT !.ip = 1], err |-> "", len |-> z.input[1]]

\* the value decompress returns after decompress_internal returned Ok(())
truncated(z) == Ok(SubSeq(z.output, 1, z.op))

\* what decompress returns on an error of decompress_internal; a panic
\* returns nothing
returned_error(outcome) ==
    IF outcome.err = "panic" THEN [ok |-> FALSE, err |-> "panic", message |-> ""]
    ELSE [ok |-> FALSE, err |-> "DecompressionError", message |-> outcome.err]

\* the bytes the streams are made of, the longest of the streams made of
\* them and the expected sizes they are decompressed to
LzoBytes == {0, 1, 17, 18, 33, 64, 97}
MaxInputLen == 4
OutputSizes == {0, 4, 8}

\* longer streams: a run of three literals and the end marker of LZO1X,
\* one literal and a short copy followed by the end marker, a short copy
\* with a trailing literal, a copy with a two-byte offset, a run of four
\* literals, length escapes of a long copy, of a copy and of a literal run
literals(n) == [k \in 1..n |-> 97 + (k % 26)]
LzoSamples ==
    {<< <<20, 97, 98, 99, 17, 0, 0>>, 3>>, << <<20, 97, 98, 99, 17, 0, 0>>, 8>>,
     << <<18, 97, 64, 0, 17, 0, 0>>, 4>>, << <<18, 97, 64, 0, 17, 0, 0>>, 12>>,
     << <<18, 97, 64, 1, 98>>, 8>>, << <<18, 97, 64, 1, 98>>, 6>>,
     << <<18, 97, 33, 0, 0>>, 4>>, << <<18, 97, 33, 1, 0>>, 4>>,
     << <<1, 97, 98, 99, 100>>, 4>>, << <<1, 97, 98, 99, 100>>, 3>>,
     << <<16, 1, 0, 0>>, 12>>, << <<24, 1, 0, 0>>, 12>>,
     << <<18, 97, 32, 0, 1, 0, 0>>, 290>>, << <<18, 97, 32, 0, 1, 0, 0>>, 289>>,
     << <<18, 97, 32, 0, 1, 0>>, 290>>, << <<18, 97, 32, 0, 0>>, 290>>,
     << <<0, 0, 1>> \o literals(274), 274>>, << <<0, 0, 1>> \o literals(274), 273>>,
     << <<0, 0, 1>> \o literals(273), 274>>}

ShortStreams == UNION {[1..n -> LzoBytes] : n \in 0..MaxInputLen}

LzoCalls == LzoSamples \cup (ShortStreams \X OutputSizes)

InitLzo ==
    /\ NoDictionary
    /\ lzo = NoLzo
    /\ \E call \in LzoCalls :
           probe = [fn |-> "Lzo1xDecompressor::decompress", arg |-> call, done |-> FALSE,
                    val |-> << >>]

\* decompress returns
Returns(z, value) ==
    /\ lzo' = [lzo EXCEPT !.input = z.input,
                          !.output = IF value.ok THEN << >> ELSE z.output,
                          !.ip = z.ip, !.op = z.op, !.pc = "returned", !.res = value]
    /\ probe' = [probe EXCEPT !.done = TRUE, !.val = value]

\* the loop of decompress_internal goes on with the lead byte t
Loops(z, t) ==
    /\ lzo' = [lzo EXCEPT !.input = z.input, !.output = z.output, !.ip = z.ip, !.op = z.op,
                          !.t = t, !.pc = "loop"]
    /\ probe' = probe

\* decompress, up to the loop of decompress_internal
Decompress ==
    /\ probe.fn = "Lzo1xDecompressor::decompress"
    /\ lzo.pc = "new"
    /\ LET enter(outcome) ==
               IF outcome.err = "return" THEN Returns(outcome.z, truncated(outcome.z))
               ELSE IF outcome.err # "" THEN Returns(outcome.z, returned_error(outcome))
               ELSE Loops(outcome.z, outcome.len)
       IN enter(before_loop(Lzo1xDecompressor_new(probe.arg[1], probe.arg[2])))
    /\ UNCHANGED <<file, status, open_err, base, result>>

\* the decompressor of the call in progress
self == [input |-> lzo.input, output |-> lzo.output, ip |-> lzo.ip, op |-> lzo.op]

\* one pass of the loop of decompress_internal after its branch
Pass(outcome) ==
    /\ IF outcome.err # "" THEN Returns(outcome.z, returned_error(outcome))
       ELSE IF outcome.z.ip >= Len(outcome.z.input)
       THEN Returns(outcome.z, truncated(outcome.z))
       ELSE Loops([outcome.z EXCEPT !.ip = outcome.z.ip + 1],
                  outcome.z.input[outcome.z.ip + 1])
    /\ UNCHANGED <<file, status, open_err, base, result>>

\* a pass of the loop with t >= 64
MatchCopy2 == lzo.pc = "loop" /\ lzo.t >= 64 /\ Pass(match_copy_2(self, lzo.t))

\* a pass of the loop with 32 <= t < 64
MatchCopyVar ==
    lzo.pc = "loop" /\ lzo.t >= 32 /\ lzo.t < 64 /\ Pass(match_copy_var(self, lzo.t))

\* a pass of the loop with 16 <= t < 32
MatchCopyLong ==
    lzo.pc = "loop" /\ lzo.t >= 16 /\ lzo.t < 32 /\ Pass(match_copy_long(self, lzo.t))

\* a pass of the loop with t < 16
LiteralRun == lzo.pc = "loop" /\ lzo.t < 16 /\ Pass(literal_run(self, lzo.t))

NextLzo == Decompress \/ MatchCopy2 \/ MatchCopyVar \/ MatchCopyLong \/ LiteralRun

SpecLzo == InitLzo /\ [][NextLzo]_vars

\* a call that has started goes on until it returns
SpecLzoLive == SpecLzo /\ WF_vars(NextLzo)

\* the length field of the instruction whose lead byte t was read just
\* before place ip of the input: the low bits of t, or, these being zero,
\* 255 for each zero byte that follows plus `added` plus the first byte
\* that is not zero; `whole` tells whether the input holds all of it and
\* `ip` is the place after it
length_field(input, ip, t, modulus, added) ==
    LET not_zero == {p \in (ip + 1)..Len(input) : input[p] # 0}
        first == CHOOSE p \in not_zero : \A q \in not_zero : p <= q
    IN IF t % modulus # 0 THEN [whole |-> TRUE, ip |-> ip, len |-> t % modulus]
       ELSE IF not_zero = {} THEN [whole |-> FALSE, ip |-> Len(input), len |-> 0]
       ELSE [whole |-> TRUE, ip |-> first,
             len |-> 255 * (first - ip - 1) + added + input[first]]

\* the instruction whose lead byte t was read just before place ip, as the
\* decoder takes it: whether the input holds all of its lead, length and
\* offset bytes (whole), the bytes it copies from the output (len) from how
\* far back (offset), and the literals it copies from the input
instruction(input, ip, t) ==
    LET with_offset(length, far) ==
            IF ~length.whole \/ length.ip + 2 > Len(input)
            THEN [whole |-> FALSE, len |-> 0, offset |-> 0, literals |-> 0]
            ELSE [whole |-> TRUE, len |-> length.len + 2,
                  offset |-> input[length.ip + 1] + 256 * input[length.ip + 2] + far,
                  literals |-> 0]
        run(length) ==
            IF ~length.whole THEN [whole |-> FALSE, len |-> 0, offset |-> 0, literals |-> 0]
            ELSE [whole |-> TRUE, len |-> 0, offset |-> 0, literals |-> length.len + 3]
    IN IF t >= 64
       THEN IF ip >= Len(input) THEN [whole |-> FALSE, len |-> 0, offset |-> 0, literals |-> 0]
            ELSE [whole |-> TRUE, len |-> (t \div 32) + 3,
                  offset |-> 8 * (t % 32) + (input[ip + 1] \div 32) + 1,
                  literals |-> input[ip + 1] % 32]
       ELSE IF t >= 32 THEN with_offset(length_field(input, ip, t, 32, 31), 1)
       ELSE IF t >= 16
       THEN with_offset(length_field(input, ip, t, 8, 7), IF t >= 24 THEN 16384 ELSE 0)
       ELSE run(length_field(input, ip, t, 16, 15))

\* the input ends in the middle of the instruction the loop is about to
\* take, has a match offset larger than the number of bytes produced, or
\* asks for a copy beyond the expected output length
Malformed ==
    LET bad(todo) ==
            \/ ~todo.whole
            \/ todo.offset > lzo.op
            \/ lzo.op + todo.len + todo.literals > Len(lzo.output)
    IN bad(instruction(lzo.input, lzo.ip, lzo.t))

\* C22: on an input that has a match offset larger than the number of bytes
\* already produced, that ends in the middle of an instruction (after a lead
\* byte, a length escape or an offset byte) or whose copy would exceed the
\* expected output length, decompress returns a DecompressionError value.
C22_MalformedInputIsAnError ==
    [][(lzo.pc = "loop" /\ Malformed) =>
           /\ lzo'.pc = "returned"
           /\ ~lzo'.res.ok
           /\ lzo'.res.err = "DecompressionError"]_vars

\* A reference LZO1X decoder with bounds checks (the decoding loop of
\* lzo1x_decompress_safe), on the produced bytes `out`: at(label, ip, t, out)
\* is the decoder at one of its labels. Literal runs are lead bytes below
\* 16; a match is M2 (lead >= 64: length (t >> 5) + 1, distance
\* 1 + ((t >> 2) & 7) + 8 * next byte), M3 (lead >= 32), M4 (lead >= 16,
\* distance 0 being the end of the stream) or M1; the low two bits of the
\* last but one byte of a match count the literals that follow it.
reference_lzo1x(input, size) ==
    LET byte(ip) == input[ip + 1]
        has(ip, count) == Len(input) - ip >= count
        room(out, count) == size - Len(out) >= count
        literals_at(ip, count) == SubSeq(input, ip + 1, ip + count)
        repeated(out, distance, count) ==
            [k \in 1..count |-> out[Len(out) - distance + 1 + ((k - 1) % distance)]]
        RECURSIVE escape(_, _, _)
        escape(ip, t, added) ==
            IF ~has(ip, 1) THEN [ok |-> FALSE, ip |-> ip, t |-> t]
            ELSE IF byte(ip) = 0 THEN escape(ip + 1, t + 255, added)
            ELSE [ok |-> TRUE, ip |-> ip + 1, t |-> t + added + byte(ip)]
        field(ip, t, added) ==
            IF t = 0 THEN escape(ip, 0, added) ELSE [ok |-> TRUE, ip |-> ip, t |-> t]
        RECURSIVE at(_, _, _, _)
        copy_match(ip, out, distance, count) ==
            IF distance > Len(out) THEN Err("lookbehind overrun")
            ELSE IF ~room(out, count) THEN Err("output overrun")
            ELSE at("match_done", ip, 0, out \o repeated(out, distance, count))
        run(length, out) ==
            IF ~length.ok THEN Err("input overrun")
            ELSE IF ~room(out, length.t + 3) THEN Err("output overrun")
            ELSE IF ~has(length.ip, length.t + 6) THEN Err("input overrun")
            ELSE at("first_literal_run", length.ip + length.t + 3, 0,
                    out \o literals_at(length.ip, length.t + 3))
        m3(length, out) ==
            IF ~length.ok \/ ~has(length.ip, 2) THEN Err("input overrun")
            ELSE copy_match(length.ip + 2, out,
                            1 + (byte(length.ip) \div 4) + 64 * byte(length.ip + 1),
                            length.t + 2)
        m4(length, out, far) ==
            IF ~length.ok \/ ~has(length.ip, 2) THEN Err("input overrun")
            ELSE IF far + (byte(length.ip) \div 4) + 64 * byte(length.ip + 1) = 0
            THEN IF length.ip + 2 = Len(input) THEN Ok(out) ELSE Err("input not consumed")
            ELSE copy_match(length.ip + 2, out,
                            far + (byte(length.ip) \div 4) + 64 * byte(length.ip + 1) + 16384,
                            length.t + 2)
        at(label, ip, t, out) ==
            CASE label = "start" ->
                     IF ~has(0, 1) THEN Err("input overrun")
                     ELSE IF byte(0) <= 17 THEN at("loop", 0, 0, out)
                     ELSE IF byte(0) - 17 < 4 THEN at("match_next", 1, byte(0) - 17, out)
                     ELSE IF ~room(out, byte(0) - 17) THEN Err("output overrun")
                     ELSE IF ~has(1, byte(0) - 17 + 3) THEN Err("input overrun")
                     ELSE at("first_literal_run", 1 + byte(0) - 17, 0,
                             literals_at(1, byte(0) - 17))
              [] label = "loop" ->
                     IF ~has(ip, 3) THEN Err("input overrun")
                     ELSE IF byte(ip) >= 16 THEN at("match", ip + 1, byte(ip), out)
                     ELSE run(field(ip + 1, byte(ip), 15), out)
              [] label = "first_literal_run" ->
                     IF ~has(ip, 2) THEN Err("input overrun")
                     ELSE IF byte(ip) >= 16 THEN at("match", ip + 1, byte(ip), out)
                     ELSE copy_match(ip + 2, out,
                                     1 + 2048 + (byte(ip) \div 4) + 4 * byte(ip + 1), 3)
              [] label = "match" ->
                     IF t >= 64
                     THEN IF ~has(ip, 1) THEN Err("input overrun")
                          ELSE copy_match(ip + 1, out,
                                          1 + ((t \div 4) % 8) + 8 * byte(ip), (t \div 32) + 1)
                     ELSE IF t >= 32 THEN m3(field(ip, t % 32, 31), out)
                     ELSE IF t >= 16 THEN m4(field(ip, t % 8, 7), out, ((t \div 8) % 2) * 16384)
                     ELSE IF ~has(ip, 1) THEN Err("input overrun")
                     ELSE copy_match(ip + 1, out, 1 + (t \div 4) + 4 * byte(ip), 2)
              [] label = "match_done" ->
                     IF byte(ip - 2) % 4 = 0 THEN at("loop", ip, 0, out)
                     ELSE at("match_next", ip, byte(ip - 2) % 4, out)
              [] label = "match_next" ->
                     IF ~room(out, t) THEN Err("output overrun")
                     ELSE IF ~has(ip, t + 3) THEN Err("input overrun")
                     ELSE at("match", ip + t + 1, byte(ip + t), out \o literals_at(ip, t))
    IN at("start", 0, 0, << >>)

\* C23: for every input stream and expected output size the decoder returns
\* the bytes a reference LZO1X decoder returns, and fails on the inputs on
\* which the reference fails: the length escapes, and for a lead byte of 64
\* or more the match length, the match offset and the number of literals
\* that follow are those of LZO1X.
C23_SameAsReference ==
    (probe.fn = "Lzo1xDecompressor::decompress" /\ probe.done) =>
        LET same(mine, reference) ==
                /\ mine.ok <=> reference.ok
                /\ mine.ok => mine.val = reference.val
        IN same(probe.val, reference_lzo1x(probe.arg[1], probe.arg[2]))

\* the length escape the pass about to be taken goes through, if any:
\* every 255 it adds is one zero byte of the input it has passed
escape_consumes ==
    LET counted(from, escape, added) ==
            escape.err = "" =>
                /\ escape.z.ip > from
                /\ escape.len = 255 * (escape.z.ip - from - 1) + added
                                    + lzo.input[escape.z.ip]
    IN /\ (lzo.t >= 32 /\ lzo.t < 64 /\ lzo.t % 32 = 0) =>
              counted(lzo.ip, extended_length(self, 0, 31), 31)
       /\ (lzo.t >= 16 /\ lzo.t < 32 /\ lzo.t % 8 = 0) =>
              counted(lzo.ip, extended_length(self, 0, 7), 7)
       /\ lzo.t = 0 => counted(lzo.ip, extended_length(self, 0, 15), 15)

\* what holds in every state of a call of decompress
within_output ==
    /\ lzo.pc # "new" => lzo.op <= probe.arg[2]
    /\ lzo.pc = "loop" => lzo.ip >= 1 /\ lzo.ip <= Len(lzo.input) /\ escape_consumes
    /\ (probe.done /\ probe.val.ok) =>
           /\ Len(probe.val.val) = lzo.op
           /\ Len(probe.val.val) <= probe.arg[2]
    /\ (probe.done /\ probe.arg[1] = << >>) => probe.val = Ok(<< >>)

\* C30: decompress terminates on every input, every pass of its main loop
\* and every round of its length escapes consuming at least one byte of the
\* input; in every state op <= output_size, and the buffer returned on
\* success has length op <= output_size: it is truncated to the bytes
\* produced and may be shorter than the expected size; an empty input gives
\* an empty output.
C30_Terminates ==
    /\ []within_output
    /\ [][(lzo.pc = "loop" /\ lzo'.pc = "loop") => lzo'.ip > lzo.ip]_vars
    /\ <>(lzo.pc = "returned")

\* a call went through its main loop to the end of the input and returned
\* fewer bytes than expected
C30_Witness ==
    /\ probe.fn = "Lzo1xDecompressor::decompress"
    /\ probe.done
    /\ probe.val.ok
    /\ lzo.ip = Len(lzo.input)
    /\ Len(probe.val.val) > 0
    /\ Len(probe.val.val) < probe.arg[2]

\* ---------------------------------------------------------------------
\* read_key_infos: what is done to the key-info blob before it is decoded
\* ---------------------------------------------------------------------

\* CompressionType::from_bytes on a buffer
CompressionType_from_bytes(bytes) ==
    IF Len(bytes) < 4 THEN None
    ELSE IF SubSeq(bytes, 1, 4) = <<0, 0, 0, 0>> THEN Some("None")
    ELSE IF SubSeq(bytes, 1, 4) = <<1, 0, 0, 0>> THEN Some("Lzo")
    ELSE IF SubSeq(bytes, 1, 4) = <<2, 0, 0, 0>> THEN Some("Zlib")
    ELSE None

\* the Adler-32 checksum that ends a zlib stream, most significant byte first
adler32(data) ==
    LET RECURSIVE sums(_, _, _)
        sums(i, a, b) ==
            IF i > Len(data) THEN <<b \div 256, b % 256, a \div 256, a % 256>>
            ELSE LET next(a1) == sums(i + 1, a1, (b + a1) % 65521)
                 IN next((a + data[i]) % 65521)
    IN sums(1, 1, 0)

\* ZlibDecoder::new(compressed_data) and read_to_end, on the streams read
\* here: a zlib header, one final stored block and the checksum give the
\* bytes of the block; a stream with a wrong header, length or checksum is
\* an error
inflate(compressed_data) ==
    LET stored(len) ==
            IF Len(compressed_data) # 7 + len + 4 THEN Err("Io")
            ELSE IF compressed_data[6] # 255 - compressed_data[4]
                    \/ compressed_data[7] # 255 - compressed_data[5] THEN Err("Io")
            ELSE LET checked(data) ==
                         IF SubSeq(compressed_data, 8 + len, 11 + len) = adler32(data)
                         THEN Ok(data)
                         ELSE Err("Io")
                 IN checked(SubSeq(compressed_data, 8, 7 + len))
    IN  IF Len(compressed_data) < 11 THEN Err("Io")
        ELSE IF compressed_data[1] % 16 # 8 \/ compressed_data[1] \div 16 > 7 THEN Err("Io")
        ELSE IF (compressed_data[1] * 256 + compressed_data[2]) % 31 # 0 THEN Err("Io")
        ELSE IF (compressed_data[2] \div 32) % 2 = 1 THEN Err("Io")
        ELSE IF compressed_data[3] # 1 THEN Err("Io")
        ELSE stored(compressed_data[4] + 256 * compressed_data[5])

\* MdictBase::read_key_infos between read_buffer and decode_key_info: the
\* buffer handed to decode_key_info, with the steps taken to make it
key_info_buf(version, encrypt, blob) ==
    LET decoded(decrypted, inflated, buf) ==
            [decrypted |-> decrypted, inflated |-> inflated, panic |-> FALSE, res |-> Ok(buf)]
        unpack(comp_type, decrypted, buf) ==
            IF comp_type = Some("Zlib")
            THEN IF Len(buf) < 8
                 THEN [decrypted |-> decrypted, inflated |-> FALSE, panic |-> TRUE,
                       res |-> Err("panic")]
                 ELSE LET read_to_end(decompressed) ==
                              IF decompressed.ok THEN decoded(decrypted, TRUE, decompressed.val)
                              ELSE [decrypted |-> decrypted, inflated |-> TRUE,
                                    panic |-> FALSE, res |-> Err(decompressed.err)]
                      IN read_to_end(inflate(SubSeq(buf, 9, Len(buf))))
            ELSE decoded(decrypted, FALSE, buf)
    IN  IF version >= 20
        THEN IF encrypt = "KeyInfoBlock"
             THEN unpack(CompressionType_from_bytes(blob), TRUE, mdx_decrypt(blob))
             ELSE unpack(CompressionType_from_bytes(blob), FALSE, blob)
        ELSE decoded(FALSE, FALSE, blob)

\* a zlib stream that holds data in one stored block
zlib_stored(data) ==
    <<120, 1, 1, Len(data) % 256, Len(data) \div 256,
      255 - (Len(data) % 256), 255 - (Len(data) \div 256)>> \o data \o adler32(data)

\* the bytes fast_decrypt turns into plain
fast_encrypt(plain, key) ==
    LET RECURSIVE from(_, _, _)
        from(i, previous, out) ==
            IF i > Len(plain) THEN out
            ELSE LET put(byte) == from(i + 1, byte, Append(out, byte))
                 IN put(rotate_left(
                        bitwise("xor",
                                bitwise("xor", bitwise("xor", plain[i], previous, 8),
                                        (i - 1) % 256, 8),
                                key[((i - 1) % Len(key)) + 1], 8), 4))
    IN from(1, 54, << >>)

\* the block mdx_decrypt turns into comp_block (8 bytes or more)
mdx_encrypt(comp_block) ==
    SubSeq(comp_block, 1, 8)
        \o fast_encrypt(SubSeq(comp_block, 9, Len(comp_block)),
                        ripemd128(SubSeq(comp_block, 5, 8) \o <<149, 54, 0, 0>>))

\* key-info tables as decode_key_info reads them: one block descriptor in
\* the v2.0 layout, one in the v1.x layout, and an empty table
KeyInfoTables ==
    {<<0, 0, 0, 0, 0, 0, 0, 2, 0, 1, 97, 0, 0, 1, 98, 0,
       0, 0, 0, 0, 0, 0, 0, 20, 0, 0, 0, 0, 0, 0, 0, 6>>,
     <<0, 0, 0, 2, 1, 97, 1, 98, 0, 0, 0, 14, 0, 0, 0, 6>>,
     << >>}

\* the type codes a blob starts with: none, LZO, zlib and two that
\* CompressionType::from_bytes does not know
TypeCodes == {<<0, 0, 0, 0>>, <<1, 0, 0, 0>>, <<2, 0, 0, 0>>, <<3, 0, 0, 0>>, <<2, 0, 0, 1>>}

\* the blobs read_key_infos is given: a table as it is, a table behind a
\* type code and four more bytes, packed or not, encrypted or not, and
\* blobs that end before byte 8
KeyInfoBlobs ==
    KeyInfoTables
    \cup {SubSeq(<<2, 0, 0, 0, 1, 2, 3>>, 1, n) : n \in 1..7}
    \cup UNION {{code \o salt \o table,
                 code \o salt \o zlib_stored(table),
                 mdx_encrypt(code \o salt \o table),
                 mdx_encrypt(code \o salt \o zlib_stored(table))} :
                    code \in TypeCodes, salt \in {<<1, 2, 3, 4>>}, table \in KeyInfoTables}

\* versions in tenths: 1.2 and 2.0 as written by the tools, 1.9 and 2.1
\* around the test of read_key_infos
KeyInfoVersions == {12, 19, 20, 21}

InitKeyInfo ==
    /\ NoDictionary
    /\ lzo = NoLzo
    /\ \E version \in KeyInfoVersions, encrypt \in {"None", "RecordBlock", "KeyInfoBlock"},
          blob \in KeyInfoBlobs :
           probe = [fn |-> "read_key_infos",
                    arg |-> [version |-> version, encrypt |-> encrypt, blob |-> blob],
                    done |-> FALSE, val |-> << >>]

\* read_key_infos on the blob read_buffer returned
ReadKeyInfos ==
    /\ probe.fn = "read_key_infos"
    /\ ~probe.done
    /\ probe' = [probe EXCEPT
                    !.done = TRUE,
                    !.val = key_info_buf(probe.arg.version, probe.arg.encrypt, probe.arg.blob)]
    /\ UNCHANGED <<file, status, open_err, base, result, lzo>>

SpecKeyInfo == InitKeyInfo /\ [][ReadKeyInfos]_vars

\* C21: for a file of version 2.0 or later the key-info blob is passed
\* through mdx_decrypt exactly when the encryption level is key-info-block
\* and the blob starts with the zlib type code 02 00 00 00, and it is
\* inflated from byte 8 exactly when it starts with that code; for a file of
\* version 1.x the blob is handed to decode_key_info as read
C21_DecryptedAndInflatedByTypeCode ==
    (probe.fn = "read_key_infos" /\ probe.done) =>
        LET zlib == Len(probe.arg.blob) >= 4 /\ SubSeq(probe.arg.blob, 1, 4) = <<2, 0, 0, 0>>
        IN  IF probe.arg.version >= 20
            THEN /\ probe.val.decrypted <=> (probe.arg.encrypt = "KeyInfoBlock" /\ zlib)
                 /\ probe.val.inflated <=> zlib
            ELSE /\ ~probe.val.decrypted
                 /\ ~probe.val.inflated
                 /\ probe.val.res = Ok(probe.arg.blob)

====
